---- MODULE Spec2Model ----
(***************************************************************************)
(* fhem-client: the request / retry / token state machine of FhemClient.   *)
(*                                                                         *)
(* The repository holds two TypeScript sources of the class:               *)
(*   "v014"  src/src/fhem-client.ts (compiled to src/lib/fhem-client.js):  *)
(*           token probe (obtainCsrfToken), execCmd_ re-entering itself,   *)
(*           callAndRetry with `retry` declared outside the loop;          *)
(*   "v019"  src/unnamed/part_009 (fhem-client.ts, changelog 0.1.9):       *)
(*           no probe, the token is taken from a 400 answer, execCmd_      *)
(*           resolves with undefined to make callAndRetry loop.            *)
(* Both are modelled; `version` says which one an instance runs.           *)
(***************************************************************************)
EXTENDS Integers, Sequences, FiniteSets, TLC

(***************************************************************************)
(* Bounds of the model.                                                    *)
(***************************************************************************)
MaxTime == 1000
TickMs == 500
MaxPeriod == 1500
MaxRequests == 4
MaxOps == 2
MaxArgs == 2
MaxRets == 4
MaxCallers == 2

(***************************************************************************)
(* Values.                                                                 *)
(***************************************************************************)
Versions == {"v014", "v019"}

\* Token values a gateway may put into the x-fhem-csrftoken header.
Tokens == {"t1", "t2"}
\* A response header that is not there (res.headers[...] is undefined).
Absent == "absent"
Headers == Tokens \cup {Absent}

\* Command texts handed to execCmd / execPerlCode.
Cmds == {"set lamp on"}

\* Response bodies, as sequences of characters.
Bodies ==
    { <<"o", "n", "\n">>, <<"4", "2", "\n">>,
      <<"[", "7", ",", "8", ",", "9", "]", "\n">>,
      <<"u", "n", "d", "e", "f", "\n">>, <<"\n">> }

\* HTTP status codes the gateway answers with.
Statuses == {200, 400, 401, 302, 500}

\* What the transport can report instead of a complete response: the code of a
\* request 'error' event, or a response 'error' / 'aborted' event.
TransportEvents == {"ECONNRESET", "res.error"}

\* options.retryIntervals as passed to the constructor.
RetryIntervalOptions ==
    { << >>,
      << <<"EFHEMCL_RES", 0>>, <<"EFHEMCL_CONNRESET", 500>> >> }

Undefined == [t |-> "undefined", n |-> 0, s |-> << >>]
\* A settled promise: a value, or an error with its code and what its message
\* interpolates (the status of the response, the text the gateway returned).
NoOutcome == [kind |-> "none", val |-> Undefined, code |-> "", status |-> 0,
              text |-> Undefined]
NoReq == [kind |-> "none", cmd |-> "", fwcsrf |-> "", after400 |-> FALSE]
\* code is the code of the error the answer or failure was turned into, timeout
\* says that the failure is the client's own abort after the request timeout,
\* event is what the transport reported for a failure.
NoResp == [kind |-> "none", cmd |-> "", status |-> 0, token |-> Absent,
           body |-> << >>, after400 |-> FALSE, code |-> "", timeout |-> FALSE,
           event |-> ""]
NoThen == [ran |-> FALSE, ret |-> Undefined, out |-> NoOutcome]
NoCallFn == [stage |-> "none"]
\* An operation of a caller that does not await the others: where it stands, its
\* cmd argument, the request it created last and what its promise settled with.
NoCall == [st |-> "idle", cmd |-> "", req |-> NoReq, result |-> ""]
\* No request holds a socket of the agent, none waits for one.
NoAgentState == [busy |-> {}, requests |-> << >>]
NoDecision == [code |-> "", at |-> 0, start |-> 0, period |-> 0,
               interval |-> 0, known |-> FALSE, decision |-> "none", earlier |-> ""]

VARIABLES
    version,                \* which source the instance runs
    client,                 \* "none" | "ready" | "threw": the constructor's outcome
    ctorArgs,               \* the arguments the constructor was called with
    ctorError,              \* what the constructor threw ("" if nothing)
    logger,                 \* this.logger: "undefined" | "user" | "dummy"
    retryIntervalFromCode,  \* this.retryIntervalFromCode, a Map code -> ms
    reqOptions,             \* this.reqOptions (v019), this.getOptions (v014)
    expirationPeriod,       \* this.expirationPeriod
    fwcsrf,                 \* this.url.searchParams 'fwcsrf' ("" when not set)
    urlCmd,                 \* this.url.searchParams 'cmd' ("" when not set)
    now,                    \* Date.now()
    pc,                     \* where the running operation stands
    frames,                 \* the active callAndRetry invocations, outermost first
    wantDepth,              \* how many callAndRetry invocations the operation nests
    opCmd,                  \* the cmd argument of execCmd_
    outcome,                \* the settled promise being delivered to the top frame
    final,                  \* what the caller's promise settled with
    wakeAt,                 \* when the pending sleep() timer is due
    inflight,               \* the request sent and not yet answered
    lastResp,               \* the latest answer of the running operation
    nSent,                  \* requests sent so far
    nOps,                   \* operations started so far
    adopted,                \* the token most recently taken from a response header
    probedNoToken,          \* a probe was answered 200 without a token header
    lastDecision,           \* what the catch handler of callAndRetry decided since the
                            \* method was last invoked
    reqAborted,             \* this.reqAborted (v014): the client aborted the request
    opName,                 \* the public method that was called
    fnHash,                 \* callFn: the argument functionReturnsHash
    cfThen,                 \* callFn: what the handler passed to then() received and
                            \* what it returned or threw
    cf,                     \* callFn from the argument list to the result, on its own
    agentOptions,           \* the options of the agent the requests go through
    calls,                  \* operations started without awaiting one another
    agent,                  \* the agent: requests holding a socket, requests waiting
    instances               \* several FhemClient objects side by side

vars == << version, client, ctorArgs, ctorError, logger, retryIntervalFromCode,
           reqOptions, expirationPeriod, fwcsrf, urlCmd, now, pc, frames, wantDepth, opCmd,
           outcome, final, wakeAt, inflight, lastResp, nSent, nOps, adopted,
           probedNoToken, lastDecision, reqAborted, opName, fnHash, cfThen, cf,
           agentOptions, calls, agent, instances >>

sessionVars == << fwcsrf, urlCmd, adopted, probedNoToken >>
ctorVars == << version, client, ctorArgs, ctorError, logger, retryIntervalFromCode,
              reqOptions, agentOptions >>
callerVars == << calls, agent, instances >>
reqVars == << inflight, lastResp, nSent >>

(***************************************************************************)
(* Pure helpers.                                                           *)
(***************************************************************************)

\* body.replace(/\n+$/, '')
RECURSIVE StripTrailingNewlines(_)
StripTrailingNewlines(s) ==
    IF Len(s) > 0 /\ s[Len(s)] = "\n"
    THEN StripTrailingNewlines(SubSeq(s, 1, Len(s) - 1))
    ELSE s

Digits == {"0", "1", "2", "3", "4", "5", "6", "7", "8", "9"}

DigitValue(c) ==
    CASE c = "0" -> 0 [] c = "1" -> 1 [] c = "2" -> 2 [] c = "3" -> 3
      [] c = "4" -> 4 [] c = "5" -> 5 [] c = "6" -> 6 [] c = "7" -> 7
      [] c = "8" -> 8 [] c = "9" -> 9

RECURSIVE DecimalValue(_)
DecimalValue(s) ==
    IF Len(s) = 0 THEN 0
    ELSE 10 * DecimalValue(SubSeq(s, 1, Len(s) - 1)) + DigitValue(s[Len(s)])

\* isNaN(Number(s)) for texts over digits and letters: Number('') is 0, a text
\* of digits is its decimal value, a text with any other character is NaN.
NumberIsNaN(s) == \E i \in 1..Len(s) : s[i] \notin Digits

\* const number = Number(body); resolve(isNaN(number) ? body : number)
ResolvedValue(body) ==
    LET text == StripTrailingNewlines(body) IN
    IF NumberIsNaN(text)
    THEN [t |-> "string", n |-> 0, s |-> text]
    ELSE [t |-> "number", n |-> DecimalValue(text), s |-> << >>]

\* DefaultRetryIntervals with an interval for EFHEMCL_CONNRESET.
DefaultRetryIntervalsWithConnReset ==
    [c \in {"EFHEMCL_RES", "EFHEMCL_ABRT", "EFHEMCL_TIMEDOUT",
            "EFHEMCL_CONNREFUSED", "EFHEMCL_NETUNREACH", "EFHEMCL_CONNRESET"} |->
        CASE c = "EFHEMCL_RES" -> 500
          [] c = "EFHEMCL_ABRT" -> 500
          [] c = "EFHEMCL_TIMEDOUT" -> 1000
          [] c = "EFHEMCL_CONNREFUSED" -> 10000
          [] c = "EFHEMCL_NETUNREACH" -> 10000
          [] c = "EFHEMCL_CONNRESET" -> 500]

\* DefaultRetryIntervals with an interval for EFHEMCL_CF_ODDLIST.
DefaultRetryIntervalsWithOddList ==
    [c \in {"EFHEMCL_RES", "EFHEMCL_ABRT", "EFHEMCL_TIMEDOUT",
            "EFHEMCL_CONNREFUSED", "EFHEMCL_NETUNREACH", "EFHEMCL_CF_ODDLIST"} |->
        CASE c = "EFHEMCL_RES" -> 500
          [] c = "EFHEMCL_ABRT" -> 500
          [] c = "EFHEMCL_TIMEDOUT" -> 1000
          [] c = "EFHEMCL_CONNREFUSED" -> 10000
          [] c = "EFHEMCL_NETUNREACH" -> 10000
          [] c = "EFHEMCL_CF_ODDLIST" -> 500]

\* The private field initialiser of retryIntervalFromCode.
DefaultRetryIntervals ==
    [c \in {"EFHEMCL_RES", "EFHEMCL_ABRT", "EFHEMCL_TIMEDOUT",
            "EFHEMCL_CONNREFUSED", "EFHEMCL_NETUNREACH"} |->
        CASE c = "EFHEMCL_RES" -> 500
          [] c = "EFHEMCL_ABRT" -> 500
          [] c = "EFHEMCL_TIMEDOUT" -> 1000
          [] c = "EFHEMCL_CONNREFUSED" -> 10000
          [] c = "EFHEMCL_NETUNREACH" -> 10000]

\* Map.prototype.set
MapSet(m, k, v) == [c \in (DOMAIN m) \cup {k} |-> IF c = k THEN v ELSE m[c]]

\* MergeRetryIntervals setting only the codes that have no interval yet.
RECURSIVE MergeRetryIntervalsNewOnly(_, _)
MergeRetryIntervalsNewOnly(m, pairs) ==
    IF Len(pairs) = 0 THEN m
    ELSE MergeRetryIntervalsNewOnly(
             IF pairs[1][1] \in DOMAIN m THEN m ELSE MapSet(m, pairs[1][1], pairs[1][2]),
             Tail(pairs))

\* for (const codeAndInterval of options.retryIntervals) map.set(code, interval)
RECURSIVE MergeRetryIntervals(_, _)
MergeRetryIntervals(m, pairs) ==
    IF Len(pairs) = 0 THEN m
    ELSE MergeRetryIntervals(MapSet(m, pairs[1][1], pairs[1][2]), Tail(pairs))

\* error(message, codeSuff): `this.logger.error(message)` runs first, and reading a
\* property of an undefined logger throws a TypeError before the ErrorWithCode
\* is built.
ErrorCode(loggerNow, codeSuff) ==
    IF loggerNow = "undefined" THEN "TypeError" ELSE "EFHEMCL_" \o codeSuff

(***************************************************************************)
(* The constructor.                                                        *)
(***************************************************************************)

\* `private logger: Logger;` has no initialiser: the field is undefined until
\* the constructor assigns it.
LoggerFieldInitial == "undefined"

\* try { this.url = new URL(options.url) }
\* catch (e) { if (getErrorCode(e) === 'ERR_INVALID_URL') this.error(..., 'INVLURL') }
\* yields the code of what is thrown, "" when the URL parses.
ParseUrlThrows(urlValid, loggerNow) ==
    IF urlValid THEN "" ELSE ErrorCode(loggerNow, "INVLURL")

\* if (logger) this.logger = logger;
\* else for (const fnName of [...]) this.logger[fnName] = dummyFn;
\* Setting a property on an undefined this.logger throws a TypeError.
InstallLogger(loggerGiven, loggerNow) ==
    IF loggerGiven THEN [threw |-> "", logger |-> "user"]
    ELSE IF loggerNow = "undefined"
         THEN [threw |-> "TypeError", logger |-> loggerNow]
         ELSE [threw |-> "", logger |-> "dummy"]

\* Request options: one value per key, "absent" for a key that is not set.
OptionKeys == {"method", "headers", "rejectUnauthorized", "timeout", "agent"}
NoOptions == [k \in OptionKeys |-> "absent"]

\* The field initialiser of the request options:
\* v014  private getOptions = { headers: { Connection: 'keep-alive' },
\*                             rejectUnauthorized: false };
\* v019  private reqOptions = { method: 'GET' };
RequestOptionsInitial(v) ==
    IF v = "v014"
    THEN [NoOptions EXCEPT !.headers = "keep-alive", !.rejectUnauthorized = "false"]
    ELSE [NoOptions EXCEPT !.method = "GET"]

\* { ...a, ...b }
Spread(a, b) == [k \in OptionKeys |-> IF b[k] # "absent" THEN b[k] ELSE a[k]]

\* The request options after the constructor's statements that assign them:
\*   this.reqOptions = { ...this.reqOptions, ...options.getOptions };
\* v019 goes on with
\*   if (this.url.protocol === 'https:') this.reqOptions.rejectUnauthorized = false;
\*   this.reqOptions.agent = new this.client.Agent(agentOptions);
MergedRequestOptions(v, https, getOptions) ==
    LET merged == Spread(RequestOptionsInitial(v), getOptions) IN
    IF v = "v014" THEN merged
    ELSE [merged EXCEPT !.rejectUnauthorized = IF https THEN "false" ELSE @,
                        !.agent = "Agent"]

\* The agent a request goes through while reqOptions has no agent of its own:
\* the global agent of the http module, which sets no limit on its sockets
\* (maxSockets 0 stands for Infinity). v014 never assigns an agent.
AgentOptionsInitial == [keepAlive |-> FALSE, maxSockets |-> 0]

\* v019 with no limit on the sockets unless options.agentOptions sets one.
MergedAgentOptionsNoLimit(v, maxSockets) ==
    IF v = "v014" THEN AgentOptionsInitial
    ELSE [keepAlive |-> TRUE, maxSockets |-> maxSockets]

\* v019  const agentOptions = { keepAlive: true, maxSockets: 1, ...options.agentOptions };
\* maxSockets is what options.agentOptions says, 0 when it says nothing.
MergedAgentOptions(v, maxSockets) ==
    IF v = "v014" THEN AgentOptionsInitial
    ELSE [keepAlive |-> TRUE, maxSockets |-> IF maxSockets = 0 THEN 1 ELSE maxSockets]

\* Two FhemClient objects.
Instances == {1, 2}

\* The fields of one FhemClient object among several, before its constructor
\* has run: the field initialisers, and the URL without parameters. overrides,
\* adopted, calledAt and calledWith are history the properties read: the
\* retryIntervals the object was constructed with, the token taken from its own
\* responses, when and with which period its operation was called, and how
\* many requests it has created.
NoInstance ==
    [client |-> "none", retryIntervalFromCode |-> DefaultRetryIntervals,
     expirationPeriod |-> 0, fwcsrf |-> "", urlCmd |-> "",
     pending |-> FALSE, req |-> NoReq, expirationTime |-> 0, decision |-> "none",
     overrides |-> << >>, adopted |-> "", calledAt |-> 0, calledWith |-> 0,
     sent |-> 0]

\* new FhemClient(options, logger): the whole constructor. Both sources parse the
\* URL first and assign the logger after it (v014 before, v019 after the request
\* options); nothing between the two steps throws for the options modelled here.
ConstructorRun(args) ==
    LET urlThrows == ParseUrlThrows(args.urlValid, LoggerFieldInitial)
        installed == InstallLogger(args.logger, LoggerFieldInitial)
        table     == MergeRetryIntervals(DefaultRetryIntervals, args.retryIntervals)
        options   == MergedRequestOptions(version, args.https, args.getOptions)
        agentOpts == MergedAgentOptions(version, args.maxSockets)
    IN  IF urlThrows # ""
        THEN [state |-> "threw", error |-> urlThrows,
              logger |-> LoggerFieldInitial, table |-> DefaultRetryIntervals,
              reqOptions |-> RequestOptionsInitial(version),
              agentOptions |-> AgentOptionsInitial]
        ELSE IF installed.threw # ""
        THEN [state |-> "threw", error |-> installed.threw,
              logger |-> installed.logger, table |-> table, reqOptions |-> options,
              agentOptions |-> agentOpts]
        ELSE [state |-> "ready", error |-> "",
              logger |-> installed.logger, table |-> table, reqOptions |-> options,
              agentOptions |-> agentOpts]

\* The constructor's arguments while operations are modelled: an http URL, and
\* options.getOptions empty or setting `timeout`.
CtorArgs ==
    [urlValid : BOOLEAN, logger : BOOLEAN, retryIntervals : RetryIntervalOptions,
     https : {FALSE},
     getOptions : {NoOptions, [NoOptions EXCEPT !.timeout = "2000"]},
     maxSockets : {0}]

\* The constructor's arguments with the protocol of the URL and the keys of
\* options.getOptions varied.
CtorArgsWithOptions ==
    [urlValid : BOOLEAN, logger : BOOLEAN, retryIntervals : RetryIntervalOptions,
     https : BOOLEAN,
     getOptions : { [NoOptions EXCEPT !.rejectUnauthorized = r, !.timeout = t,
                                      !.headers = h] :
                        r \in {"absent", "true", "false"},
                        t \in {"absent", "2000"},
                        h \in {"absent", "user"} },
     maxSockets : {0}]

\* The constructor's arguments with options.agentOptions varied: maxSockets not
\* given, or given as 2.
CtorArgsWithAgent ==
    [urlValid : {TRUE}, logger : {TRUE}, retryIntervals : {<< >>},
     https : {FALSE}, getOptions : {NoOptions}, maxSockets : {0, 2}]

Construct(args) ==
    /\ client = "none"
    /\ LET r == ConstructorRun(args) IN
        /\ client' = r.state
        /\ ctorError' = r.error
        /\ logger' = r.logger
        /\ retryIntervalFromCode' = r.table
        /\ reqOptions' = r.reqOptions
        /\ agentOptions' = r.agentOptions
    /\ ctorArgs' = args
    /\ UNCHANGED << version, callerVars, cf, reqAborted, opName, fnHash, cfThen, expirationPeriod, now, pc, frames, wantDepth, opCmd,
                    outcome, final, wakeAt, reqVars, nOps, sessionVars, lastDecision >>

(***************************************************************************)
(* The caller and the clock.                                               *)
(***************************************************************************)

\* fhemClient.expirationPeriod = p: the property is public and may be assigned
\* at any moment, also while an operation is under way. The property is read
\* only on entry to callAndRetry, so the assignments that can make a difference
\* are those before a public method is called and, while one is under way, those
\* before a nested callAndRetry is entered; these are the ones modelled.
SetExpirationPeriod(p) ==
    /\ client = "ready"
    /\ pc = "idle" \/ (pc = "call" /\ Len(frames) < wantDepth)
    /\ p # expirationPeriod
    /\ expirationPeriod' = p
    /\ UNCHANGED << ctorVars, callerVars, cf, reqAborted, opName, fnHash, cfThen, now, pc, frames, wantDepth, opCmd, outcome, final,
                    wakeAt, reqVars, nOps, sessionVars, lastDecision >>

\* Time passes while a request is under way or a timer is pending.
Tick ==
    /\ client = "ready"
    /\ pc \in {"probe", "cmd", "sleep"}
    /\ now + TickMs <= MaxTime
    /\ now' = now + TickMs
    /\ UNCHANGED << ctorVars, callerVars, cf, reqAborted, opName, fnHash, cfThen, expirationPeriod, pc, frames, wantDepth, opCmd, outcome,
                    final, wakeAt, reqVars, nOps, sessionVars, lastDecision >>

(***************************************************************************)
(* callAndRetry: one frame per active invocation.                          *)
(***************************************************************************)

\* const expirationTime = this.expirationPeriod > 0 ? Date.now() + this.expirationPeriod
\*                                                  : undefined;   (0 stands for undefined)
\* let retry = false; let retryInterval;
\* The fields after retryInterval are history the properties read: when the call
\* started and with which period, when a retried failure allowed the next
\* attempt, when that attempt began, whether an attempt has succeeded, and the
\* code of the error swallowed last; attempts counts the invocations of the
\* method, codes collects what the attempts that were repeated ended with.
NewFrame ==
    [expirationTime |-> IF expirationPeriod > 0 THEN now + expirationPeriod ELSE 0,
     retry |-> FALSE,
     retryInterval |-> 0,
     start |-> now,
     period |-> expirationPeriod,
     retryPending |-> FALSE,
     retryDue |-> 0,
     resumedAt |-> -1,
     hadSuccess |-> FALSE,
     attempts |-> 0,
     codes |-> {},
     invokedAfterSuccess |-> FALSE,
     swallowed |-> ""]

\* The number of nested callAndRetry invocations of a public method.
\* v014: execCmd -> execCmd__ -> callAndRetry(execCmd_);
\*       execPerlCode -> execPerlCode__ -> callAndRetry(execPerlCode_)
\*                    -> execCmd__ -> callAndRetry(execCmd_);
\*       callFn -> callAndRetry(callFn_) -> execPerlCode__ -> ... as above.
\* v019: execCmd, execPerlCode_ (and with it callFn) each call
\*       callAndRetry(execCmd_) once.
Depth(v, op) ==
    IF v = "v014"
    THEN CASE op = "execCmd" -> 1 [] op = "execPerlCode" -> 2 [] op = "callFn" -> 3
    ELSE 1

\* callFn attaches its handler with then() to the promise of execPerlCode__
\* (v014, the second callAndRetry) or execPerlCode_ (v019, the only one): the
\* index of the frame whose result the handler receives, 0 for the other methods.
ThenAt(v, op) ==
    IF op = "callFn" THEN (IF v = "v014" THEN 2 ELSE 1) ELSE 0

\* execPerlCode hands `{ ${code} }` to execCmd_.
CmdText(op, text) == IF op = "execPerlCode" THEN "{ " \o text \o " }" ELSE text

Ops == {"execCmd", "execPerlCode"}

(***************************************************************************)
(* callFn: the Perl snippet built from the argument list.  Texts of this    *)
(* part are strings; an argument is a record with its typeof in t.          *)
(***************************************************************************)

NumArg(n) == [t |-> "number", n |-> n, s |-> "", b |-> FALSE]
StrArg(x) == [t |-> "string", n |-> 0, s |-> x, b |-> FALSE]
BoolArg(x) == [t |-> "boolean", n |-> 0, s |-> "", b |-> x]
UndefinedArg == [t |-> "undefined", n |-> 0, s |-> "", b |-> FALSE]

\* `${n}` for a natural number n.
RECURSIVE NatText(_)
NatText(n) ==
    LET d == CASE n % 10 = 0 -> "0" [] n % 10 = 1 -> "1" [] n % 10 = 2 -> "2"
               [] n % 10 = 3 -> "3" [] n % 10 = 4 -> "4" [] n % 10 = 5 -> "5"
               [] n % 10 = 6 -> "6" [] n % 10 = 7 -> "7" [] n % 10 = 8 -> "8"
               [] n % 10 = 9 -> "9"
    IN  IF n < 10 THEN d ELSE NatText(n \div 10) \o d

\* The text an element becomes in Array.prototype.join: '' for undefined.
JoinText(x) == IF x = "(undefined)" THEN "" ELSE x

\* pieces.join(sep)
RECURSIVE Join(_, _)
Join(pieces, sep) ==
    IF Len(pieces) = 0 THEN ""
    ELSE IF Len(pieces) = 1 THEN JoinText(pieces[1])
    ELSE JoinText(pieces[1]) \o sep \o Join(Tail(pieces), sep)

\* The callback of args.map. "(undefined)" stands for the value undefined.
\* v014: arg => typeof arg === 'number' ? arg : `"${arg}"`
\* v019: switch (typeof arg) { case 'number': return arg;
\*                            case 'boolean': return arg ? 1 : '';
\*                            case 'string': return `"${arg}"`; }
RenderArg(v, arg) ==
    IF v = "v014"
    THEN CASE arg.t = "number" -> NatText(arg.n)
           [] arg.t = "string" -> "\"" \o arg.s \o "\""
           [] arg.t = "boolean" -> IF arg.b THEN "\"true\"" ELSE "\"false\""
           [] arg.t = "undefined" -> "\"undefined\""
    ELSE CASE arg.t = "number" -> NatText(arg.n)
           [] arg.t = "boolean" -> IF arg.b THEN "1" ELSE ""
           [] arg.t = "string" -> "\"" \o arg.s \o "\""
           [] arg.t = "undefined" -> "(undefined)"

\* const argsStr = args.map(...).join(',')
ArgsStr(v, args) == Join([i \in 1..Len(args) |-> RenderArg(v, args[i])], ",")

\* text.includes(part)
Includes(text, part) ==
    \E i \in 1..(Len(text) - Len(part) + 1) :
        SubSeq(text, i, i + Len(part) - 1) = part

\* Whether the snippet gets the statement translateUndefined.
TranslateUndefined(v, args) ==
    Len(args) > 0 /\ Includes(ArgsStr(v, args), "undefined")

\* The Perl code handed to execPerlCode_ (name 'dev', functionName 'fn').
CallFnCode(v, passDevHash, args) ==
    LET useStatement == "use Scalar::Util 'looks_like_number'"
        processRet == "!defined($ret[0])?'undef':'['.join(',',map(looks_like_number($_)?$_:\"'$_'\",@ret)).']'"
        argsStr == ArgsStr(v, args)
        head == IF passDevHash THEN "CallFn('dev','fn',$defs{dev}" ELSE "CallFn('dev','fn'"
        invocation ==
            IF Len(args) > 0
            THEN IF TranslateUndefined(v, args)
                 THEN head \o ",@args)"
                 ELSE head \o "," \o argsStr \o ")"
            ELSE head \o ")"
    IN  IF TranslateUndefined(v, args)
        THEN useStatement \o ";;"
             \o "my @args=map(($_ eq 'undefined'?undef:$_),(" \o argsStr \o "))"
             \o ";;my @ret=" \o invocation \o ";;" \o processRet
        ELSE useStatement \o ";;my @ret=" \o invocation \o ";;" \o processRet

\* What the gateway's Perl makes of the list literal (argsStr): the items
\* between the commas outside double quotes; an empty item adds no element.
RECURSIVE PerlListItems(_, _, _, _)
PerlListItems(text, i, item, quoted) ==
    IF i > Len(text)
    THEN IF item = "" THEN << >> ELSE << item >>
    ELSE LET c == SubSeq(text, i, i) IN
         IF c = "," /\ ~quoted
         THEN (IF item = "" THEN << >> ELSE << item >>)
                  \o PerlListItems(text, i + 1, "", FALSE)
         ELSE PerlListItems(text, i + 1, item \o c,
                            IF c = "\"" THEN ~quoted ELSE quoted)

\* The value of a number written in digits.
RECURSIVE TextDecimal(_)
TextDecimal(text) ==
    IF Len(text) = 0 THEN 0
    ELSE 10 * TextDecimal(SubSeq(text, 1, Len(text) - 1))
             + DigitValue(SubSeq(text, Len(text), Len(text)))

PerlNumber(n) == [t |-> "number", n |-> n, s |-> ""]
PerlString(x) == [t |-> "string", n |-> 0, s |-> x]
PerlUndef == [t |-> "undef", n |-> 0, s |-> ""]

\* The Perl scalar an item of the list literal denotes.
PerlScalar(item) ==
    IF SubSeq(item, 1, 1) = "\""
    THEN PerlString(SubSeq(item, 2, Len(item) - 1))
    ELSE PerlNumber(TextDecimal(item))

\* map(($_ eq 'undefined'?undef:$_), ...): eq compares the texts.
PerlTranslateUndefined(x) ==
    IF x.t = "string" /\ x.s = "undefined" THEN PerlUndef ELSE x

\* The arguments the remote function is called with: (argsStr) itself, or
\* @args, the list after translateUndefined.
PerlReceived(v, args) ==
    LET items == PerlListItems(ArgsStr(v, args), 1, "", FALSE)
        list == [i \in 1..Len(items) |-> PerlScalar(items[i])]
    IN  IF TranslateUndefined(v, args)
        THEN [i \in 1..Len(list) |-> PerlTranslateUndefined(list[i])]
        ELSE list

\* The argument list callFn is called with while requests are modelled.
CallFnArgsSent == << NumArg(1) >>

\* The frame as it is when the loop body calls method.apply(this, args).
\* v019 declares retryInterval inside the loop and sets `retry = false` at the
\* top of every iteration; v014 declares both outside and never resets them.
Invoked(f) ==
    [f EXCEPT !.retry = IF version = "v019" THEN FALSE ELSE @,
              !.retryInterval = IF version = "v019" THEN 0 ELSE @,
              !.resumedAt = IF f.retryPending THEN now ELSE @,
              !.retryPending = FALSE,
              !.invokedAfterSuccess = @ \/ f.hadSuccess,
              !.attempts = @ + 1]

TopInvoked == [frames EXCEPT ![Len(frames)] = Invoked(frames[Len(frames)])]

\* ShouldRetry with the deadline test off by one: an attempt that would start
\* exactly at the deadline is still retried.
ShouldRetryAtDeadline(f, code) ==
    /\ f.expirationTime # 0
    /\ code \in DOMAIN retryIntervalFromCode
    /\ retryIntervalFromCode[code] > 0
    /\ now + retryIntervalFromCode[code] <= f.expirationTime

\* ShouldRetry reading this.expirationPeriod when the error is caught in place
\* of the expirationTime computed on entry.
ShouldRetryCurrentPeriod(f, code) ==
    /\ expirationPeriod > 0
    /\ code \in DOMAIN retryIntervalFromCode
    /\ retryIntervalFromCode[code] > 0
    /\ now + retryIntervalFromCode[code] < f.start + expirationPeriod

\* The condition of the catch handler under which the error is swallowed:
\*   if (expirationTime && this.retryIntervalFromCode.has(e.code)) {
\*       retryInterval = this.retryIntervalFromCode.get(e.code);
\*       if (retryInterval > 0 && Date.now() + retryInterval < expirationTime) retry = true;
\*       else throw e; }
\*   else throw e;
ShouldRetry(f, code) ==
    /\ f.expirationTime # 0
    /\ code \in DOMAIN retryIntervalFromCode
    /\ retryIntervalFromCode[code] > 0
    /\ now + retryIntervalFromCode[code] < f.expirationTime

\* retryInterval after the catch handler ran for `code`.
IntervalAfterCatch(f, code) ==
    IF f.expirationTime # 0 /\ code \in DOMAIN retryIntervalFromCode
    THEN retryIntervalFromCode[code]
    ELSE f.retryInterval

Decision(f, code, what) ==
    [code |-> code, at |-> now, start |-> f.start, period |-> f.period,
     interval |-> IF code \in DOMAIN retryIntervalFromCode
                  THEN retryIntervalFromCode[code] ELSE 0,
     known |-> code \in DOMAIN retryIntervalFromCode,
     decision |-> what,
     earlier |-> f.swallowed]

\* A public method is called; cmd is the command execCmd_ will be given.
Begin(op, cmd, functionReturnsHash) ==
    /\ client = "ready"
    /\ pc = "idle"
    /\ nOps < MaxOps
    /\ nOps' = nOps + 1
    /\ frames' = << NewFrame >>
    /\ wantDepth' = Depth(version, op)
    /\ opName' = op
    /\ fnHash' = functionReturnsHash
    /\ opCmd' = cmd
    /\ pc' = "call"
    /\ outcome' = NoOutcome
    /\ final' = NoOutcome
    /\ lastResp' = NoResp
    /\ lastDecision' = NoDecision
    /\ cfThen' = NoThen
    /\ UNCHANGED << ctorVars, callerVars, cf, reqAborted, expirationPeriod, now, wakeAt, inflight,
                    nSent, sessionVars >>

\* execCmd(text) or execPerlCode(text).
Start(op, text) == Begin(op, CmdText(op, text), FALSE)

\* callFn('dev', 'fn', false, functionReturnsHash, ...CallFnArgsSent)
StartCallFn(functionReturnsHash) ==
    Begin("callFn",
          CmdText("execPerlCode", CallFnCode(version, FALSE, CallFnArgsSent)),
          functionReturnsHash)

\* v014: the method of the outer callAndRetry is execPerlCode_, which calls
\* execCmd__ and so enters the inner callAndRetry.
EnterNested ==
    /\ version = "v014"
    /\ pc = "call"
    /\ Len(frames) < wantDepth
    /\ frames' = Append(TopInvoked, NewFrame)
    /\ lastDecision' = NoDecision
    /\ UNCHANGED << ctorVars, callerVars, cf, reqAborted, opName, fnHash, cfThen, expirationPeriod, now, pc, wantDepth, opCmd, outcome,
                    final, wakeAt, reqVars, nOps, sessionVars >>

\* this.client.get(this.url, ...) / this.client.request(this.url, ...): the request
\* carries the query parameters the shared URL object has at this moment.
Request(kind, cmdNow, tokenNow, resp) ==
    [kind |-> kind, cmd |-> cmdNow, fwcsrf |-> tokenNow,
     after400 |-> /\ kind = "cmd"
                  /\ resp.kind = "cmd"
                  /\ resp.status = 400
                  /\ resp.token # Absent]

\* ExecCmd014 without the probe: the command is sent whether or not the URL
\* holds a token.
ExecCmd014NoProbe(tokenNow, resp) ==
    /\ nSent < MaxRequests
    /\ nSent' = nSent + 1
    /\ fwcsrf' = tokenNow
    /\ lastResp' = resp
    /\ urlCmd' = opCmd
    /\ inflight' = Request("cmd", opCmd, tokenNow, resp)
    /\ pc' = "cmd"

\* ExecCmd014 probing at the start of every operation, token or not.
ExecCmd014ProbeEachCall(tokenNow, resp) ==
    /\ nSent < MaxRequests
    /\ nSent' = nSent + 1
    /\ fwcsrf' = tokenNow
    /\ lastResp' = resp
    /\ IF tokenNow = "" \/ resp = NoResp
       THEN /\ urlCmd' = urlCmd
            /\ inflight' = Request("probe", urlCmd, tokenNow, resp)
            /\ pc' = "probe"
       ELSE /\ urlCmd' = opCmd
            /\ inflight' = Request("cmd", opCmd, tokenNow, resp)
            /\ pc' = "cmd"

\* ExecCmd014 writing the cmd parameter into the URL before it looks for the
\* token.
ExecCmd014CmdFirst(tokenNow, resp) ==
    /\ nSent < MaxRequests
    /\ nSent' = nSent + 1
    /\ fwcsrf' = tokenNow
    /\ lastResp' = resp
    /\ urlCmd' = opCmd
    /\ IF tokenNow = ""
       THEN /\ inflight' = Request("probe", urlCmd', tokenNow, resp)
            /\ pc' = "probe"
       ELSE /\ inflight' = Request("cmd", opCmd, tokenNow, resp)
            /\ pc' = "cmd"

\* v014 execCmd_(cmd), entered with the URL's fwcsrf being tokenNow:
\*   if (!url.searchParams.get('fwcsrf')) return this.obtainCsrfToken().then(...)
\*   url.searchParams.set('cmd', cmd); return this.getWithPromise(...)
\* resp is the answer that led here (the last answer when called from the loop).
ExecCmd014(tokenNow, resp) ==
    /\ nSent < MaxRequests
    /\ nSent' = nSent + 1
    /\ fwcsrf' = tokenNow
    /\ lastResp' = resp
    /\ IF tokenNow = ""
       THEN /\ urlCmd' = urlCmd
            /\ inflight' = Request("probe", urlCmd, tokenNow, resp)
            /\ pc' = "probe"
       ELSE /\ urlCmd' = opCmd
            /\ inflight' = Request("cmd", opCmd, tokenNow, resp)
            /\ pc' = "cmd"

\* v014: the innermost callAndRetry calls execCmd_.
Invoke014 ==
    /\ version = "v014"
    /\ pc = "call"
    /\ Len(frames) = wantDepth
    /\ frames' = TopInvoked
    /\ ExecCmd014(fwcsrf, lastResp)
    /\ lastDecision' = NoDecision
    /\ UNCHANGED << ctorVars, callerVars, cf, reqAborted, opName, fnHash, cfThen, expirationPeriod, now, wantDepth, opCmd, outcome,
                    final, wakeAt, nOps, adopted, probedNoToken >>

\* v019: callAndRetry calls execCmd_, which sets the cmd parameter and sends
\* the request at once.
Invoke019 ==
    /\ version = "v019"
    /\ pc = "call"
    /\ Len(frames) = wantDepth
    /\ nSent < MaxRequests
    /\ nSent' = nSent + 1
    /\ frames' = TopInvoked
    /\ urlCmd' = opCmd
    /\ inflight' = Request("cmd", opCmd, fwcsrf, lastResp)
    /\ pc' = "cmd"
    /\ lastDecision' = NoDecision
    /\ UNCHANGED << ctorVars, callerVars, cf, reqAborted, opName, fnHash, cfThen, expirationPeriod, now, wantDepth, opCmd, outcome,
                    final, wakeAt, lastResp, nOps, fwcsrf, adopted, probedNoToken >>

(***************************************************************************)
(* Answers of the gateway and failures of the transport.                   *)
(***************************************************************************)

Response(req, status, header, body) ==
    [kind |-> req.kind, cmd |-> req.cmd, status |-> status, token |-> header,
     body |-> body, after400 |-> req.after400, code |-> "", timeout |-> FALSE,
     event |-> ""]

Failure(req) ==
    [kind |-> "failure", cmd |-> req.cmd, status |-> 0, token |-> Absent,
     body |-> << >>, after400 |-> req.after400, code |-> "", timeout |-> FALSE,
     event |-> ""]

\* The answer r, turned into an error with this code.
Coded(r, code) == [r EXCEPT !.code = code]

Rejected(code) ==
    [kind |-> "error", val |-> Undefined, code |-> code, status |-> 0,
     text |-> Undefined]
Resolved(v) ==
    [kind |-> "value", val |-> v, code |-> "", status |-> 0, text |-> Undefined]

\* StatusErrorCode with 401 reported under the code of a response error.
StatusErrorCodeAuthAsRes(status) ==
    CASE status = 401 -> ErrorCode(logger, "RES")
      [] status = 302 -> ErrorCode(logger, "WEBN")
      [] OTHER -> ErrorCode(logger, "")

\* handleStatusCode (v014) and the cases 401, 302 and default of execCmd_ (v019).
StatusErrorCode(status) ==
    CASE status = 401 -> ErrorCode(logger, "AUTH")
      [] status = 302 -> ErrorCode(logger, "WEBN")
      [] OTHER -> ErrorCode(logger, "")

\* The error a status other than 200 and 400 is turned into. The message of
\* the default case interpolates res.statusCode and res.statusMessage, the
\* messages of 401 and 302 do not.
StatusError(status) ==
    [Rejected(StatusErrorCode(status)) EXCEPT
        !.status = IF status \in {401, 302} THEN 0 ELSE status]

\* The listeners of getWithPromise: the request 'error' listener switches on the
\* code of the error, the response listeners 'error' and 'aborted' reject with
\* RES and ABRT.
TransportErrorCode(ev) ==
    CASE ev = "ETIMEDOUT" -> ErrorCode(logger, "TIMEDOUT")
      [] ev = "ECONNREFUSED" -> ErrorCode(logger, "CONNREFUSED")
      [] ev = "ENETUNREACH" -> ErrorCode(logger, "NETUNREACH")
      [] ev = "ECONNRESET" -> ErrorCode(logger, "CONNRESET")
      [] ev = "res.error" -> ErrorCode(logger, "RES")
      [] ev = "res.aborted" -> ErrorCode(logger, "ABRT")
      [] OTHER -> ErrorCode(logger, "REQ")

\* v014 obtainCsrfToken, cases 400 and 200: resolve(token), token being '' when
\* the header is missing; then, in execCmd_,
\*   token => { if (token) url.searchParams.set('fwcsrf', token);
\*              return this.execCmd_(cmd, calledByCallFn); }
ProbeAnswered014(status, header) ==
    /\ version = "v014"
    /\ pc = "probe"
    /\ status \in {200, 400}
    /\ ~reqAborted
    /\ adopted' = IF header # Absent THEN header ELSE adopted
    /\ probedNoToken' = (probedNoToken \/ (status = 200 /\ header = Absent))
    /\ ExecCmd014(IF header # Absent THEN header ELSE fwcsrf,
                  Response(inflight, status, header, << >>))
    /\ UNCHANGED << ctorVars, callerVars, cf, reqAborted, opName, fnHash, cfThen, expirationPeriod, now, frames, wantDepth, opCmd,
                    outcome, final, wakeAt, nOps, lastDecision >>

\* v014 obtainCsrfToken, default case: handleStatusCode rejects.
ProbeRejected014(status) ==
    /\ version = "v014"
    /\ pc = "probe"
    /\ status \notin {200, 400}
    /\ ~reqAborted
    /\ lastResp' = Coded(Response(inflight, status, Absent, << >>),
                         StatusErrorCode(status))
    /\ inflight' = NoReq
    /\ outcome' = StatusError(status)
    /\ pc' = "settle"
    /\ UNCHANGED << ctorVars, callerVars, cf, reqAborted, opName, fnHash, cfThen, expirationPeriod, now, frames, wantDepth, opCmd, final,
                    wakeAt, nSent, nOps, sessionVars, lastDecision >>

\* execCmd_, case 200 (both sources): the body is read to its end, trailing
\* newlines are removed and the promise resolves with a number or the text.
CmdAnswered200(body) ==
    /\ pc = "cmd"
    /\ ~reqAborted
    /\ lastResp' = Response(inflight, 200, Absent, body)
    /\ inflight' = NoReq
    /\ outcome' = Resolved(ResolvedValue(body))
    /\ pc' = "settle"
    /\ UNCHANGED << ctorVars, callerVars, cf, reqAborted, opName, fnHash, cfThen, expirationPeriod, now, frames, wantDepth, opCmd, final,
                    wakeAt, nSent, nOps, sessionVars, lastDecision >>

\* v014 execCmd_, case 400. The branch is chosen by url.searchParams.has('fwcsrf'),
\* which holds whenever a command request was sent (execCmd_ sends none while
\* the parameter is empty), so the token is always overwritten by the header,
\* a missing header becoming the text 'undefined', and execCmd_ is re-entered:
\*   url.searchParams.set('fwcsrf', res.headers['x-fhem-csrftoken'] as string);
\*   this.execCmd_(cmd, calledByCallFn).then(result => resolve(result), e => reject(e));
CmdAnswered400v014(header) ==
    /\ version = "v014"
    /\ pc = "cmd"
    /\ ~reqAborted
    /\ IF fwcsrf # ""
       THEN /\ adopted' = IF header # Absent THEN header ELSE adopted
            /\ ExecCmd014(IF header # Absent THEN header ELSE "undefined",
                          Response(inflight, 400, header, << >>))
            /\ UNCHANGED << outcome >>
       ELSE /\ lastResp' = Coded(Response(inflight, 400, header, << >>),
                                 ErrorCode(logger, "NOTOKEN"))
            /\ inflight' = NoReq
            /\ outcome' = Rejected(ErrorCode(logger, "NOTOKEN"))
            /\ pc' = "settle"
            /\ UNCHANGED << nSent, fwcsrf, urlCmd, adopted >>
    /\ UNCHANGED << ctorVars, callerVars, cf, reqAborted, opName, fnHash, cfThen, expirationPeriod, now, frames, wantDepth, opCmd, final,
                    wakeAt, nOps, probedNoToken, lastDecision >>

\* v019 execCmd_, case 400: without the header the promise is rejected with
\* NOTOKEN; with it the token is stored and the promise resolves with undefined.
CmdAnswered400v019(header) ==
    /\ version = "v019"
    /\ pc = "cmd"
    /\ lastResp' = Coded(Response(inflight, 400, header, << >>),
                         IF header = Absent THEN ErrorCode(logger, "NOTOKEN") ELSE "")
    /\ inflight' = NoReq
    /\ IF header = Absent
       THEN /\ outcome' = Rejected(ErrorCode(logger, "NOTOKEN"))
            /\ UNCHANGED << fwcsrf, adopted >>
       ELSE /\ fwcsrf' = header
            /\ adopted' = header
            /\ outcome' = Resolved(Undefined)
    /\ pc' = "settle"
    /\ UNCHANGED << ctorVars, callerVars, cf, reqAborted, opName, fnHash, cfThen, expirationPeriod, now, frames, wantDepth, opCmd, final,
                    wakeAt, nSent, nOps, urlCmd, probedNoToken, lastDecision >>

\* execCmd_, every other status (both sources): rejected with AUTH, WEBN or the
\* code without a suffix.
CmdRejected(status) ==
    /\ pc = "cmd"
    /\ status \notin {200, 400}
    /\ ~reqAborted
    /\ lastResp' = Coded(Response(inflight, status, Absent, << >>),
                         StatusErrorCode(status))
    /\ inflight' = NoReq
    /\ outcome' = StatusError(status)
    /\ pc' = "settle"
    /\ UNCHANGED << ctorVars, callerVars, cf, reqAborted, opName, fnHash, cfThen, expirationPeriod, now, frames, wantDepth, opCmd, final,
                    wakeAt, nSent, nOps, sessionVars, lastDecision >>

\* RequestErrorCode without the flag: the ECONNRESET of the client's own abort
\* is reported like any other reset.
RequestErrorCodeNoFlag(ev, aborted) ==
    TransportErrorCode(ev)

\* The request 'error' listener with the flag of v014:
\*   case 'ECONNRESET': if (this.reqAborted) { this.reqAborted = false;
\*                          error(..., 'TIMEDOUT', reject); break; }
\*                      error(..., 'CONNRESET', reject);
RequestErrorCode(ev, aborted) ==
    IF ev = "ECONNRESET" /\ aborted
    THEN ErrorCode(logger, "TIMEDOUT")
    ELSE TransportErrorCode(ev)

\* TransportFailed with the 'error' listener leaving this.reqAborted as it is.
TransportFailedKeepingFlag(ev) ==
    /\ pc \in {"probe", "cmd"}
    /\ reqAborted => ev = "ECONNRESET"
    /\ lastResp' = [Coded(Failure(inflight), RequestErrorCode(ev, reqAborted))
                        EXCEPT !.timeout = reqAborted, !.event = ev]
    /\ inflight' = NoReq
    /\ outcome' = Rejected(RequestErrorCode(ev, reqAborted))
    /\ reqAborted' = reqAborted
    /\ pc' = "settle"
    /\ UNCHANGED << ctorVars, callerVars, cf, opName, fnHash, cfThen, expirationPeriod, now, frames, wantDepth, opCmd, final,
                    wakeAt, nSent, nOps, sessionVars, lastDecision >>

\* getWithPromise: the transport reports an error instead of a usable answer.
\* A request the client has aborted reports the ECONNRESET of the abort.
TransportFailed(ev) ==
    /\ pc \in {"probe", "cmd"}
    /\ reqAborted => ev = "ECONNRESET"
    /\ lastResp' = [Coded(Failure(inflight), RequestErrorCode(ev, reqAborted))
                        EXCEPT !.timeout = reqAborted, !.event = ev]
    /\ inflight' = NoReq
    /\ outcome' = Rejected(RequestErrorCode(ev, reqAborted))
    /\ reqAborted' = IF ev = "ECONNRESET" THEN FALSE ELSE reqAborted
    /\ pc' = "settle"
    /\ UNCHANGED << ctorVars, callerVars, cf, opName, fnHash, cfThen, expirationPeriod, now, frames, wantDepth, opCmd, final,
                    wakeAt, nSent, nOps, sessionVars, lastDecision >>

\* The request or the response emits 'error' with an error object that has no
\* code. Both listeners call getErrorCode(e) first, which throws
\*   new Error(`'code' doesn't exist. ...`)
\* inside the listener: reject is never called, the promise stays pending and
\* the Error leaves the event emitter uncaught.
ListenerThrows ==
    /\ pc \in {"probe", "cmd"}
    /\ ~reqAborted
    /\ lastResp' = [Coded(Failure(inflight), "Error") EXCEPT !.event = "no code"]
    /\ inflight' = NoReq
    /\ pc' = "uncaught"
    /\ UNCHANGED << ctorVars, callerVars, cf, reqAborted, opName, fnHash, cfThen, expirationPeriod,
                    now, frames, wantDepth, opCmd, outcome, final, wakeAt, nSent, nOps,
                    sessionVars, lastDecision >>

\* v014, the 'timeout' listener, which is removed as soon as a response is
\* received:  this.reqAborted = true; req.abort();
RequestTimeout014 ==
    /\ version = "v014"
    /\ pc \in {"probe", "cmd"}
    /\ reqOptions.timeout # "absent"
    /\ ~reqAborted
    /\ reqAborted' = TRUE
    /\ UNCHANGED << ctorVars, callerVars, cf, opName, fnHash, cfThen, expirationPeriod, now, pc,
                    frames, wantDepth, opCmd, outcome, final, wakeAt, reqVars, nOps,
                    sessionVars, lastDecision >>

\* v019, the 'timeout' listener: req.destroy(new ErrorWithCode('', 'ETIMEDOUT')),
\* which makes the request emit 'error' with that error.
RequestTimeout019 ==
    /\ version = "v019"
    /\ pc = "cmd"
    /\ reqOptions.timeout # "absent"
    /\ lastResp' = [Coded(Failure(inflight), TransportErrorCode("ETIMEDOUT"))
                        EXCEPT !.timeout = TRUE, !.event = "ETIMEDOUT"]
    /\ inflight' = NoReq
    /\ outcome' = Rejected(TransportErrorCode("ETIMEDOUT"))
    /\ pc' = "settle"
    /\ UNCHANGED << ctorVars, callerVars, cf, reqAborted, opName, fnHash, cfThen, expirationPeriod,
                    now, frames, wantDepth, opCmd, final, wakeAt, nSent, nOps,
                    sessionVars, lastDecision >>

(***************************************************************************)
(* callFn: the handler passed to then().  The texts of this part are        *)
(* sequences of characters, as the bodies are.                              *)
(***************************************************************************)

RejectedWithText(code, text) == [Rejected(code) EXCEPT !.text = text]

Chars(t, v) == [t |-> t, n |-> 0, s |-> v]
NumberValue(n) == [t |-> "number", n |-> n, s |-> << >>]

\* chars.split(c)
RECURSIVE SplitAt(_, _)
SplitAt(chars, c) ==
    IF \A i \in 1..Len(chars) : chars[i] # c
    THEN << chars >>
    ELSE LET k == CHOOSE i \in 1..Len(chars) :
                     chars[i] = c /\ \A j \in 1..(i - 1) : chars[j] # c
         IN  << SubSeq(chars, 1, k - 1) >>
                 \o SplitAt(SubSeq(chars, k + 1, Len(chars)), c)

\* An element of a JSON array: a number written in digits or a text in double
\* quotes. Single quotes do not delimit a JSON string.
JsonElementOk(e) ==
    \/ /\ Len(e) > 0
       /\ \A i \in 1..Len(e) : e[i] \in Digits
       /\ Len(e) = 1 \/ e[1] # "0"
    \/ /\ Len(e) >= 2
       /\ e[1] = "\"" /\ e[Len(e)] = "\""
       /\ \A i \in 2..(Len(e) - 1) : e[i] \notin {"\"", "\\"}

JsonElement(e) ==
    IF e[1] = "\"" THEN Chars("string", SubSeq(e, 2, Len(e) - 1))
    ELSE NumberValue(DecimalValue(e))

\* JSON.parse(ret as string) for what execCmd_ resolves with: a number (which
\* is turned into its text and parsed back) or a text that is not a number. Of
\* the texts, the arrays of numbers and quoted texts are parsed; every other
\* text of Bodies is no JSON and makes JSON.parse throw a SyntaxError.
JsonParse(ret) ==
    IF ret.t = "number" THEN [ok |-> TRUE, v |-> ret]
    ELSE LET text == ret.s IN
         IF Len(text) >= 2 /\ text[1] = "[" /\ text[Len(text)] = "]"
         THEN LET inner == SubSeq(text, 2, Len(text) - 1)
                  elems == SplitAt(inner, ",")
              IN  IF Len(inner) = 0
                  THEN [ok |-> TRUE, v |-> Chars("array", << >>)]
                  ELSE IF \A i \in 1..Len(elems) : JsonElementOk(elems[i])
                  THEN [ok |-> TRUE,
                        v |-> Chars("array",
                                    [i \in 1..Len(elems) |-> JsonElement(elems[i])])]
                  ELSE [ok |-> FALSE, v |-> Undefined]
         ELSE [ok |-> FALSE, v |-> Undefined]

\* EntriesSet leaving the entry of a key that is already there as it is.
EntriesSetKeepFirst(m, k, v) ==
    IF \E i \in 1..Len(m) : m[i][1] = k
    THEN m
    ELSE Append(m, << k, v >>)

\* map.set(k, v) on a Map kept as the sequence of its entries.
EntriesSet(m, k, v) ==
    IF \E i \in 1..Len(m) : m[i][1] = k
    THEN [i \in 1..Len(m) |-> IF m[i][1] = k THEN << k, v >> ELSE m[i]]
    ELSE Append(m, << k, v >>)

\* for (let i = 0; i < retArray.length; i += 2) map.set(retArray[i], retArray[i + 1])
RECURSIVE MapFromList(_, _)
MapFromList(m, list) ==
    IF Len(list) < 2 THEN m
    ELSE MapFromList(EntriesSet(m, list[1], list[2]), SubSeq(list, 3, Len(list)))

\* retArray.length: the number of elements of an array, undefined (-1) for a number.
LengthOf(v) == IF v.t = "array" THEN Len(v.s) ELSE -1

\* retArray[0]
FirstOf(v) == v.s[1]

\* CallFnThen with the test of functionReturnsHash before the test for a single
\* element.
CallFnThenHashFirst(ret, functionReturnsHash) ==
    IF ret = Chars("string", <<"u", "n", "d", "e", "f">>) THEN Resolved(Undefined)
    ELSE LET parsed == JsonParse(ret) IN
         IF ~parsed.ok
         THEN RejectedWithText(ErrorCode(logger, "CF_FHEMERR"), ret)
         ELSE IF functionReturnsHash
         THEN IF LengthOf(parsed.v) >= 0 /\ LengthOf(parsed.v) % 2 = 0
              THEN Resolved(Chars("map", MapFromList(<< >>, parsed.v.s)))
              ELSE Rejected(ErrorCode(logger, "CF_ODDLIST"))
         ELSE IF LengthOf(parsed.v) = 1 THEN Resolved(FirstOf(parsed.v))
         ELSE Resolved(parsed.v)

\* The handler callFn passes to then(), receiving what execPerlCode_ resolved
\* with (both sources):
\*   if (ret === 'undef') return;
\*   try { retArray = JSON.parse(ret) } catch (e) { error(..., 'CF_FHEMERR') }
\*   if (retArray.length === 1) return retArray[0];
\*   if (functionReturnsHash) { if (retArray.length % 2 === 0) return map;
\*                              else error(..., 'CF_ODDLIST'); }
\*   return retArray;
\* For a number, retArray.length is undefined: neither === 1 nor % 2 === 0.
CallFnThen(ret, functionReturnsHash) ==
    IF ret = Chars("string", <<"u", "n", "d", "e", "f">>) THEN Resolved(Undefined)
    ELSE LET parsed == JsonParse(ret) IN
         IF ~parsed.ok
         THEN RejectedWithText(ErrorCode(logger, "CF_FHEMERR"), ret)
         ELSE IF LengthOf(parsed.v) = 1 THEN Resolved(FirstOf(parsed.v))
         ELSE IF functionReturnsHash
         THEN IF LengthOf(parsed.v) >= 0 /\ LengthOf(parsed.v) % 2 = 0
              THEN Resolved(Chars("map", MapFromList(<< >>, parsed.v.s)))
              ELSE Rejected(ErrorCode(logger, "CF_ODDLIST"))
         ELSE Resolved(parsed.v)

\* The decimal digits of a natural number.
RECURSIVE NatChars(_)
NatChars(n) ==
    LET d == CHOOSE c \in Digits : DigitValue(c) = n % 10
    IN  IF n < 10 THEN << d >> ELSE Append(NatChars(n \div 10), d)

\* Perl's looks_like_number for numbers and for texts over digits and letters.
LooksLikeNumber(x) ==
    \/ x.t = "number"
    \/ Len(x.s) > 0 /\ \A i \in 1..Len(x.s) : x.s[i] \in Digits

\* looks_like_number($_) ? $_ : "'$_'"
ProcessRetElement(x) ==
    IF LooksLikeNumber(x)
    THEN (IF x.t = "number" THEN NatChars(x.n) ELSE x.s)
    ELSE <<"'">> \o x.s \o <<"'">>

RECURSIVE JoinChars(_, _)
JoinChars(pieces, sep) ==
    IF Len(pieces) = 0 THEN << >>
    ELSE IF Len(pieces) = 1 THEN pieces[1]
    ELSE pieces[1] \o sep \o JoinChars(Tail(pieces), sep)

\* processRet, evaluated by the gateway for the list @ret the function returned:
\*   !defined($ret[0]) ? 'undef' : '['.join(',', map(..., @ret)).']'
ProcessRet(rets) ==
    IF Len(rets) = 0
    THEN <<"u", "n", "d", "e", "f">>
    ELSE <<"[">>
             \o JoinChars([i \in 1..Len(rets) |-> ProcessRetElement(rets[i])], <<",">>)
             \o <<"]">>

(***************************************************************************)
(* callFn on its own: from the argument list to the snippet, to what the    *)
(* remote function receives and returns, to the result of the handler.      *)
(***************************************************************************)

RECURSIVE ListsUpTo(_, _)
ListsUpTo(S, n) ==
    IF n = 0 THEN { << >> }
    ELSE ListsUpTo(S, n - 1)
             \cup { Append(l, x) : l \in { m \in ListsUpTo(S, n - 1) : Len(m) = n - 1 },
                                   x \in S }

\* The arguments of callFn: v014 declares (string | number)[], v019
\* (string | number | boolean)[]; both document undefined.
ArgValues(v) ==
    { NumArg(1), StrArg("a"), StrArg("undefined"), UndefinedArg }
        \cup (IF v = "v019" THEN { BoolArg(TRUE), BoolArg(FALSE) } ELSE { })

\* What a remote function returns in its list: numbers and texts.
RetValues == { NumberValue(7), Chars("string", <<"8">>), Chars("string", <<"o", "n">>) }

\* callFn('dev', 'fn', false, functionReturnsHash, ...args) builds its snippet.
CfBuild(args, functionReturnsHash) ==
    /\ cf.stage = "none"
    /\ cf' = [stage |-> "built", args |-> args, hash |-> functionReturnsHash,
              code |-> CallFnCode(version, FALSE, args)]
    /\ UNCHANGED << ctorVars, callerVars, reqAborted, opName, fnHash, cfThen, expirationPeriod, now,
                    pc, frames, wantDepth, opCmd, outcome, final, wakeAt, reqVars, nOps,
                    sessionVars, lastDecision >>

\* The gateway runs the snippet: the function receives its arguments and
\* returns rets, which processRet turns into the text of the response.
CfRemote(rets) ==
    /\ cf.stage = "built"
    /\ cf' = [stage |-> "returned", args |-> cf.args, hash |-> cf.hash,
              received |-> PerlReceived(version, cf.args),
              rets |-> rets,
              body |-> ProcessRet(rets) \o <<"\n">>]
    /\ UNCHANGED << ctorVars, callerVars, reqAborted, opName, fnHash, cfThen, expirationPeriod, now,
                    pc, frames, wantDepth, opCmd, outcome, final, wakeAt, reqVars, nOps,
                    sessionVars, lastDecision >>

\* execCmd_ resolves with the body and the handler of callFn handles it.
CfResolve ==
    /\ cf.stage = "returned"
    /\ cf' = [stage |-> "resolved", args |-> cf.args, hash |-> cf.hash,
              received |-> cf.received, rets |-> cf.rets,
              ret |-> ResolvedValue(cf.body),
              out |-> CallFnThen(ResolvedValue(cf.body), cf.hash)]
    /\ UNCHANGED << ctorVars, callerVars, reqAborted, opName, fnHash, cfThen, expirationPeriod, now,
                    pc, frames, wantDepth, opCmd, outcome, final, wakeAt, reqVars, nOps,
                    sessionVars, lastDecision >>

(***************************************************************************)
(* callAndRetry: what the loop does with the settled promise of the method. *)
(***************************************************************************)

Top == frames[Len(frames)]
SetTop(f) == [frames EXCEPT ![Len(frames)] = f]

\* What the promise of the top frame, settling with o, hands on: the result of
\* callFn's handler where that is attached to it and o is a value, o otherwise.
HandedOn(o) ==
    IF o.kind = "value" /\ Len(frames) = ThenAt(version, opName)
    THEN CallFnThen(o.val, fnHash)
    ELSE o

\* Leave throwing the error the frame swallowed before, where there is one,
\* in place of the error of the attempt that just failed.
LeaveEarlier(o) ==
    LET e == IF o.kind = "error" /\ Top.swallowed # ""
             THEN Rejected(Top.swallowed) ELSE o
    IN  /\ frames' = SubSeq(frames, 1, Len(frames) - 1)
        /\ wakeAt' = wakeAt
        /\ cfThen' = IF e.kind = "value" /\ Len(frames) = ThenAt(version, opName)
                     THEN [ran |-> TRUE, ret |-> e.val, out |-> HandedOn(e)]
                     ELSE cfThen
        /\ IF Len(frames) = 1
           THEN /\ final' = HandedOn(e)
                /\ outcome' = NoOutcome
                /\ pc' = "idle"
           ELSE /\ final' = final
                /\ outcome' = HandedOn(e)
                /\ pc' = "settle"

\* The frame returns a value or throws: its own promise settles with o, which
\* the caller's promise or the enclosing callAndRetry receives.
Leave(o) ==
    /\ frames' = SubSeq(frames, 1, Len(frames) - 1)
    /\ wakeAt' = wakeAt
    /\ cfThen' = IF o.kind = "value" /\ Len(frames) = ThenAt(version, opName)
                 THEN [ran |-> TRUE, ret |-> o.val, out |-> HandedOn(o)]
                 ELSE cfThen
    /\ IF Len(frames) = 1
       THEN /\ final' = HandedOn(o)
            /\ outcome' = NoOutcome
            /\ pc' = "idle"
       ELSE /\ final' = final
            /\ outcome' = HandedOn(o)
            /\ pc' = "settle"

\* await sleep(ms) of the top frame f.
Sleep(f, ms) ==
    /\ frames' = SetTop(f)
    /\ wakeAt' = now + ms
    /\ pc' = "sleep"
    /\ UNCHANGED << final, outcome, cfThen >>

\* The loop goes round without sleeping.
Again(f) ==
    /\ frames' = SetTop(f)
    /\ pc' = "call"
    /\ outcome' = NoOutcome
    /\ UNCHANGED << final, wakeAt, cfThen >>

Swallowed(f, code) ==
    [f EXCEPT !.retry = TRUE,
              !.retryInterval = IntervalAfterCatch(f, code),
              !.retryPending = TRUE,
              !.retryDue = now + IntervalAfterCatch(f, code),
              !.resumedAt = -1,
              !.swallowed = code,
              !.codes = @ \cup {code}]

\* v014, after `result = await method.apply(this, args).catch(...)`:
\*   if (retry) await sleep(retryInterval); else return result;
\* `retry` is the variable declared before the loop: once a failure has been
\* retried it stays true, also when a later attempt resolves.
Settle014 ==
    /\ version = "v014"
    /\ pc = "settle"
    /\ IF outcome.kind = "error"
       THEN IF ShouldRetry(Top, outcome.code)
            THEN /\ Sleep(Swallowed(Top, outcome.code),
                          IntervalAfterCatch(Top, outcome.code))
                 /\ lastDecision' = Decision(Top, outcome.code, "retry")
            ELSE /\ Leave(outcome)
                 /\ lastDecision' = Decision(Top, outcome.code, "rethrow")
       ELSE /\ lastDecision' = lastDecision
            /\ IF Top.retry
               THEN Sleep([Top EXCEPT !.hadSuccess = TRUE], Top.retryInterval)
               ELSE Leave(outcome)
    /\ UNCHANGED << ctorVars, callerVars, cf, reqAborted, opName, fnHash, expirationPeriod, now,
                    wantDepth, opCmd, reqVars, nOps, sessionVars >>

\* Settle019 going round for an undefined result only while the deadline has
\* not passed.
Settle019WithDeadline ==
    /\ version = "v019"
    /\ pc = "settle"
    /\ IF outcome.kind = "error"
       THEN IF ShouldRetry(Top, outcome.code)
            THEN /\ Again(Swallowed(Top, outcome.code))
                 /\ lastDecision' = Decision(Top, outcome.code, "retry")
            ELSE /\ Leave(outcome)
                 /\ lastDecision' = Decision(Top, outcome.code, "rethrow")
       ELSE /\ lastDecision' = lastDecision
            /\ IF outcome.val = Undefined /\ Top.expirationTime # 0
                  /\ now < Top.expirationTime
               THEN Again([Top EXCEPT !.retry = TRUE])
               ELSE Leave(outcome)
    /\ UNCHANGED << ctorVars, callerVars, cf, reqAborted, opName, fnHash, expirationPeriod, now,
                    wantDepth, opCmd, reqVars, nOps, sessionVars >>

\* v019, after `const result = await method.apply(this, args).catch(...)`:
\*   if (result === undefined) noSleep = retry = true;
\*   if (retry) { if (!noSleep) await sleep(retryInterval); } else return result;
\* A catch handler that swallows the error returns nothing, so result is
\* undefined after a retried failure just as after a token invalidation.
Settle019 ==
    /\ version = "v019"
    /\ pc = "settle"
    /\ IF outcome.kind = "error"
       THEN IF ShouldRetry(Top, outcome.code)
            THEN /\ Again(Swallowed(Top, outcome.code))
                 /\ lastDecision' = Decision(Top, outcome.code, "retry")
            ELSE /\ Leave(outcome)
                 /\ lastDecision' = Decision(Top, outcome.code, "rethrow")
       ELSE /\ lastDecision' = lastDecision
            /\ IF outcome.val = Undefined
               THEN Again([Top EXCEPT !.retry = TRUE, !.codes = @ \cup {"undefined"}])
               ELSE Leave(outcome)
    /\ UNCHANGED << ctorVars, callerVars, cf, reqAborted, opName, fnHash, expirationPeriod, now,
                    wantDepth, opCmd, reqVars, nOps, sessionVars >>

\* The timer of sleep() fires; `while (retry)` holds and the loop goes round.
Wake ==
    /\ pc = "sleep"
    /\ now >= wakeAt
    /\ pc' = "call"
    /\ outcome' = NoOutcome
    /\ UNCHANGED << ctorVars, callerVars, cf, reqAborted, opName, fnHash, cfThen, expirationPeriod, now, frames, wantDepth, opCmd, final,
                    wakeAt, reqVars, nOps, sessionVars, lastDecision >>

(***************************************************************************)
(* Specifications.                                                         *)
(***************************************************************************)

InitWith(vs) ==
    /\ version \in vs
    /\ client = "none"
    /\ ctorArgs = [urlValid |-> TRUE, logger |-> TRUE, retryIntervals |-> << >>,
                   https |-> FALSE, getOptions |-> NoOptions, maxSockets |-> 0]
    /\ reqOptions = RequestOptionsInitial(version)
    /\ agentOptions = AgentOptionsInitial
    /\ calls = [i \in 1..MaxCallers |-> NoCall]
    /\ agent = NoAgentState
    /\ instances = [k \in Instances |-> NoInstance]
    /\ ctorError = ""
    /\ logger = LoggerFieldInitial
    /\ retryIntervalFromCode = DefaultRetryIntervals
    /\ expirationPeriod = 0
    /\ fwcsrf = ""
    /\ urlCmd = ""
    /\ now = 0
    /\ pc = "idle"
    /\ frames = << >>
    /\ wantDepth = 1
    /\ opCmd = ""
    /\ outcome = NoOutcome
    /\ final = NoOutcome
    /\ wakeAt = 0
    /\ inflight = NoReq
    /\ lastResp = NoResp
    /\ nSent = 0
    /\ nOps = 0
    /\ adopted = ""
    /\ probedNoToken = FALSE
    /\ lastDecision = NoDecision
    /\ reqAborted = FALSE
    /\ opName = ""
    /\ fnHash = FALSE
    /\ cfThen = NoThen
    /\ cf = NoCallFn

Periods == {0, MaxPeriod}

\* What the caller, the clock, the gateway and the transport do to either source.
Common ==
    \/ \E args \in CtorArgs : Construct(args)
    \/ \E p \in Periods : SetExpirationPeriod(p)
    \/ Tick
    \/ \E op \in Ops, text \in Cmds : Start(op, text)
    \/ \E functionReturnsHash \in BOOLEAN : StartCallFn(functionReturnsHash)
    \/ \E body \in Bodies : CmdAnswered200(body)
    \/ \E status \in Statuses : CmdRejected(status)
    \/ \E ev \in TransportEvents : TransportFailed(ev)
    \/ ListenerThrows

Next014 ==
    \/ Common
    \/ EnterNested
    \/ Invoke014
    \/ \E status \in Statuses, header \in Headers : ProbeAnswered014(status, header)
    \/ \E status \in Statuses : ProbeRejected014(status)
    \/ \E header \in Headers : CmdAnswered400v014(header)
    \/ Settle014
    \/ Wake
    \/ RequestTimeout014

Next019 ==
    \/ Common
    \/ Invoke019
    \/ \E header \in Headers : CmdAnswered400v019(header)
    \/ Settle019
    \/ RequestTimeout019

Next == Next014 \/ Next019

Init == InitWith(Versions)
Init014 == InitWith({"v014"})
Init019 == InitWith({"v019"})

\* callFn on its own, on a client constructed with a logger.
InitCallFn ==
    /\ version \in Versions
    /\ client = "ready"
    /\ ctorArgs = [urlValid |-> TRUE, logger |-> TRUE, retryIntervals |-> << >>,
                   https |-> FALSE, getOptions |-> NoOptions, maxSockets |-> 0]
    /\ reqOptions = MergedRequestOptions(version, FALSE, NoOptions)
    /\ agentOptions = MergedAgentOptions(version, 0)
    /\ calls = [i \in 1..MaxCallers |-> NoCall]
    /\ agent = NoAgentState
    /\ instances = [k \in Instances |-> NoInstance]
    /\ ctorError = ""
    /\ logger = "user"
    /\ retryIntervalFromCode = DefaultRetryIntervals
    /\ expirationPeriod = 0
    /\ fwcsrf = ""
    /\ urlCmd = ""
    /\ now = 0
    /\ pc = "idle"
    /\ frames = << >>
    /\ wantDepth = 1
    /\ opCmd = ""
    /\ outcome = NoOutcome
    /\ final = NoOutcome
    /\ wakeAt = 0
    /\ inflight = NoReq
    /\ lastResp = NoResp
    /\ nSent = 0
    /\ nOps = 0
    /\ adopted = ""
    /\ probedNoToken = FALSE
    /\ lastDecision = NoDecision
    /\ reqAborted = FALSE
    /\ opName = ""
    /\ fnHash = FALSE
    /\ cfThen = NoThen
    /\ cf = NoCallFn

NextCallFn ==
    \/ \E args \in ListsUpTo(ArgValues(version), MaxArgs),
          functionReturnsHash \in BOOLEAN : CfBuild(args, functionReturnsHash)
    \/ \E rets \in ListsUpTo(RetValues, MaxRets) : CfRemote(rets)
    \/ CfResolve

SpecCallFn == InitCallFn /\ [][NextCallFn]_vars

\* v019 with its scheduling: the event loop runs callAndRetry whenever it can go
\* on, and the transport answers or fails every request.
Answered019 ==
    \/ \E body \in Bodies : CmdAnswered200(body)
    \/ \E status \in Statuses : CmdRejected(status)
    \/ \E header \in Headers : CmdAnswered400v019(header)
    \/ \E ev \in TransportEvents : TransportFailed(ev)
    \/ ListenerThrows
    \/ RequestTimeout019

FairSpec019 ==
    /\ Init019
    /\ [][Next019]_vars
    /\ WF_vars(Invoke019)
    /\ WF_vars(Settle019)
    /\ WF_vars(Answered019)

Spec == Init /\ [][Next]_vars

\* The constructor on its own, with every combination of its options.
NextOptions == \E args \in CtorArgsWithOptions : Construct(args)
SpecOptions == Init /\ [][NextOptions]_vars
Spec014 == Init014 /\ [][Next014]_vars
Spec019 == Init019 /\ [][Next019]_vars

\* Every kind of event the listeners of getWithPromise distinguish: the codes
\* of a request 'error' (EPIPE standing for a code the switch does not name),
\* and the response events 'error' and 'aborted'.
AllTransportEvents ==
    {"ETIMEDOUT", "ECONNREFUSED", "ENETUNREACH", "ECONNRESET", "EPIPE",
     "res.error", "res.aborted"}

\* Operations whose requests the transport fails in every way, expirationPeriod
\* being 0 as the constructor left it.
NextTransport ==
    \/ \E args \in CtorArgs : Construct(args)
    \/ \E op \in Ops, text \in Cmds : Start(op, text)
    \/ EnterNested
    \/ Invoke014
    \/ Invoke019
    \/ \E ev \in AllTransportEvents : TransportFailed(ev)
    \/ ListenerThrows
    \/ RequestTimeout014
    \/ RequestTimeout019
    \/ Settle014
    \/ Settle019

SpecTransport == Init /\ [][NextTransport]_vars

(***************************************************************************)
(* Several instances (v019), each used by one caller at a time.  Every      *)
(* field is an instance field: the table of retry intervals, the URL with   *)
(* its parameters and expirationPeriod belong to the object.               *)
(***************************************************************************)
\* The requests the instances have created so far.
TotalSent == instances[1].sent + instances[2].sent

\* What a step of an instance leaves alone: the clock and the client modelled
\* on its own.
InstFrame ==
    UNCHANGED << ctorVars, calls, agent, cf, reqAborted, opName, fnHash, cfThen,
                 expirationPeriod, now, pc, frames, wantDepth, opCmd, outcome, final,
                 wakeAt, reqVars, nOps, sessionVars, lastDecision >>

\* InstConstruct with the table of retry intervals being one Map that all
\* instances share.
InstConstructSharedTable(k, retryIntervals) ==
    /\ instances[k].client = "none"
    /\ instances' = [j \in Instances |->
            [IF j = k
             THEN [instances[j] EXCEPT !.client = "ready", !.overrides = retryIntervals]
             ELSE instances[j]
                EXCEPT !.retryIntervalFromCode =
                    MergeRetryIntervals(instances[j].retryIntervalFromCode,
                                        retryIntervals)]]
    /\ InstFrame

\* The options of the constructor are those of a client with a logger; only
\* retryIntervals varies.
InstConstruct(k, retryIntervals) ==
    /\ instances[k].client = "none"
    /\ instances' = [instances EXCEPT
            ![k].client = "ready",
            ![k].retryIntervalFromCode =
                MergeRetryIntervals(DefaultRetryIntervals, retryIntervals),
            ![k].overrides = retryIntervals]
    /\ InstFrame

\* instance.expirationPeriod = p, between the operations of the instance (the
\* property is read on entry to callAndRetry only).
InstSetPeriod(k, p) ==
    /\ instances[k].client = "ready"
    /\ ~instances[k].pending
    /\ p # instances[k].expirationPeriod
    /\ instances' = [instances EXCEPT ![k].expirationPeriod = p]
    /\ InstFrame

\* execCmd_(cmd) on instance k: the request is created from the instance's URL.
InstRequest(inst, cmd, again) ==
    [inst EXCEPT !.urlCmd = cmd,
                 !.pending = TRUE,
                 !.sent = @ + 1,
                 !.req = [kind |-> "cmd", cmd |-> cmd, fwcsrf |-> inst.fwcsrf,
                          after400 |-> again]]

\* instance.execCmd(cmd): callAndRetry computes expirationTime and calls
\* execCmd_.
InstCall(k, cmd) ==
    /\ instances[k].client = "ready"
    /\ ~instances[k].pending
    /\ TotalSent < MaxRequests
    /\ instances' = [instances EXCEPT ![k] =
            InstRequest([@ EXCEPT
                            !.expirationTime =
                                IF instances[k].expirationPeriod > 0
                                THEN now + instances[k].expirationPeriod ELSE 0,
                            !.decision = "none",
                            !.calledAt = now,
                            !.calledWith = instances[k].expirationPeriod],
                        cmd, FALSE)]
    /\ InstFrame

\* The catch handler of callAndRetry on an instance.
InstShouldRetry(inst, code) ==
    /\ inst.expirationTime # 0
    /\ code \in DOMAIN inst.retryIntervalFromCode
    /\ inst.retryIntervalFromCode[code] > 0
    /\ now + inst.retryIntervalFromCode[code] < inst.expirationTime

\* The attempt of instance k is rejected with `code`: the error is swallowed and
\* execCmd_ called again (at once, as in Settle019), or rethrown.
InstRejected(inst, code) ==
    IF InstShouldRetry(inst, code)
    THEN [InstRequest(inst, inst.req.cmd, FALSE) EXCEPT !.decision = "retry"]
    ELSE [inst EXCEPT !.pending = FALSE, !.decision = "rethrow"]

\* The gateway answers the request of instance k.
InstAnswered(k, status, header) ==
    /\ instances[k].pending
    /\ TotalSent < MaxRequests
    /\ status = 400 \/ header = Absent
    /\ instances' = [instances EXCEPT ![k] =
            IF status = 200 THEN [@ EXCEPT !.pending = FALSE]
            ELSE IF status = 400 /\ header # Absent
            THEN InstRequest([@ EXCEPT !.fwcsrf = header, !.adopted = header],
                             instances[k].req.cmd, TRUE)
            ELSE IF status = 400
            THEN InstRejected(@, ErrorCode(logger, "NOTOKEN"))
            ELSE InstRejected(@, StatusErrorCode(status))]
    /\ InstFrame

\* The transport fails the request of instance k.
InstFailed(k, ev) ==
    /\ instances[k].pending
    /\ TotalSent < MaxRequests
    /\ instances' = [instances EXCEPT ![k] = InstRejected(@, TransportErrorCode(ev))]
    /\ InstFrame

\* Time passes while a request of some instance is under way.
InstTick ==
    /\ \E k \in Instances : instances[k].pending
    /\ now + TickMs <= MaxTime
    /\ now' = now + TickMs
    /\ UNCHANGED << ctorVars, callerVars, cf, reqAborted, opName, fnHash, cfThen,
                    expirationPeriod, pc, frames, wantDepth, opCmd, outcome, final,
                    wakeAt, reqVars, nOps, sessionVars, lastDecision >>

InitInstances == InitCallFn /\ version = "v019"

NextInstances ==
    \/ \E k \in Instances, r \in RetryIntervalOptions : InstConstruct(k, r)
    \/ \E k \in Instances, p \in Periods : InstSetPeriod(k, p)
    \/ \E k \in Instances, cmd \in Cmds : InstCall(k, cmd)
    \/ \E k \in Instances, status \in Statuses, header \in Headers :
           InstAnswered(k, status, header)
    \/ \E k \in Instances, ev \in TransportEvents : InstFailed(k, ev)
    \/ InstTick

SpecInstances == InitInstances /\ [][NextInstances]_vars

\* fhemClient.expirationPeriod = p while an operation is under way, at any of
\* its suspension points.
SetExpirationPeriodMidCall(p) ==
    /\ client = "ready"
    /\ pc \notin {"idle", "uncaught"}
    /\ p # expirationPeriod
    /\ expirationPeriod' = p
    /\ UNCHANGED << ctorVars, callerVars, cf, reqAborted, opName, fnHash, cfThen, now, pc,
                    frames, wantDepth, opCmd, outcome, final, wakeAt, reqVars, nOps,
                    sessionVars, lastDecision >>

NextPeriod019 ==
    \/ Next019
    \/ \E p \in Periods : SetExpirationPeriodMidCall(p)

SpecPeriod019 == Init019 /\ [][NextPeriod019]_vars

(***************************************************************************)
(* Several operations on one instance, none awaiting another (v019).       *)
(* Every request is created by this.client.request(this.url,               *)
(* this.reqOptions, ...) and handed to reqOptions.agent, which gives it a  *)
(* socket while it has fewer than maxSockets in use and queues it          *)
(* otherwise; a socket that is freed or closed goes to the request that    *)
(* has waited longest.                                                     *)
(***************************************************************************)
Callers == 1..MaxCallers

\* The cmd arguments of the callers.
CallerCmds == {"set lamp on", "set lamp off"}

singleOpVars == << cf, reqAborted, opName, fnHash, cfThen, expirationPeriod, now, pc,
                   frames, wantDepth, opCmd, outcome, final, wakeAt, inflight,
                   lastResp, nOps, probedNoToken, lastDecision, instances >>

HasFreeSocket(a) ==
    agentOptions.maxSockets = 0 \/ Cardinality(a.busy) < agentOptions.maxSockets

\* agent.addRequest(req): a socket at once, or a place at the end of the queue.
AddRequest(a, i) ==
    IF HasFreeSocket(a)
    THEN [a EXCEPT !.busy = @ \cup {i}]
    ELSE [a EXCEPT !.requests = Append(@, i)]

\* The socket of request i is freed (keep-alive, after the response ended) or
\* closed: the first waiting request gets a socket.
Release(a, i) ==
    IF a.requests = << >>
    THEN [a EXCEPT !.busy = @ \ {i}]
    ELSE [busy |-> (a.busy \ {i}) \cup {Head(a.requests)},
          requests |-> Tail(a.requests)]

\* The calls once the agent is in state a: a waiting request that got a socket
\* is sent.
Dispatched(cs, a) ==
    [j \in Callers |->
        IF cs[j].st = "queued" /\ j \in a.busy
        THEN [cs[j] EXCEPT !.st = "sent"]
        ELSE cs[j]]

\* CallerRequest creating the request before the cmd parameter is written into
\* the URL.
CallerRequestBeforeSet(i, cmd, tokenNow, again) ==
    /\ nSent < MaxRequests
    /\ nSent' = nSent + 1
    /\ urlCmd' = cmd
    /\ calls' = Dispatched(
                    [calls EXCEPT ![i] =
                        [st |-> "queued", cmd |-> cmd, result |-> "",
                         req |-> [kind |-> "cmd", cmd |-> urlCmd, fwcsrf |-> tokenNow,
                                  after400 |-> again]]],
                    agent')

\* execCmd_(cmd) of caller i, up to the return of getWithPromise:
\*   url.searchParams.set('cmd', cmd);
\*   const req = this.client.request(this.url, this.reqOptions, ...); req.end();
\* The request takes its path from the URL as it is when the request is created.
CallerRequest(i, cmd, tokenNow, again) ==
    /\ nSent < MaxRequests
    /\ nSent' = nSent + 1
    /\ urlCmd' = cmd
    /\ calls' = Dispatched(
                    [calls EXCEPT ![i] =
                        [st |-> "queued", cmd |-> cmd, result |-> "",
                         req |-> [kind |-> "cmd", cmd |-> urlCmd', fwcsrf |-> tokenNow,
                                  after400 |-> again]]],
                    agent')

\* Caller i calls execCmd(cmd) and does not await it. The period is 0 as the
\* constructor left it: callAndRetry rethrows every error.
CallerStart(i, cmd) ==
    /\ version = "v019"
    /\ client = "ready"
    /\ pc = "idle"
    /\ calls[i].st = "idle"
    /\ agent' = AddRequest(agent, i)
    /\ CallerRequest(i, cmd, fwcsrf, FALSE)
    /\ UNCHANGED << ctorVars, singleOpVars, fwcsrf, adopted >>

\* 200: the body is read to its end, the promise resolves and the socket goes
\* back to the agent.
CallerAnswered200(i) ==
    /\ calls[i].st = "sent"
    /\ agent' = Release(agent, i)
    /\ calls' = Dispatched([calls EXCEPT ![i].st = "done", ![i].result = "resolved"],
                           agent')
    /\ UNCHANGED << ctorVars, singleOpVars, sessionVars, nSent >>

\* 400 with a token: res.socket.destroy(), the token is set, the promise
\* resolves with undefined and callAndRetry calls execCmd_(cmd) again in the
\* continuation of the promise, before the 'close' of the destroyed socket is
\* handled: the new request finds the socket still counted.
CallerAnswered400Token(i, header) ==
    /\ calls[i].st = "sent"
    /\ header # Absent
    /\ fwcsrf' = header
    /\ adopted' = header
    /\ agent' = IF HasFreeSocket(agent)
                THEN agent
                ELSE Release([agent EXCEPT !.requests = Append(@, i)], i)
    /\ CallerRequest(i, calls[i].cmd, header, TRUE)
    /\ UNCHANGED << ctorVars, singleOpVars >>

\* 400 without a token, 401, 302 and every other status: the promise is
\* rejected (and callAndRetry rethrows); nothing reads the response, so the
\* request keeps its socket.
CallerRejected(i, status) ==
    /\ calls[i].st = "sent"
    /\ status # 200
    /\ LET code == IF status = 400 THEN ErrorCode(logger, "NOTOKEN")
                   ELSE StatusErrorCode(status) IN
        /\ ~ShouldRetry(NewFrame, code)
        /\ calls' = [calls EXCEPT ![i].st = "held", ![i].result = code]
    /\ UNCHANGED << ctorVars, singleOpVars, sessionVars, nSent, agent >>

\* The gateway closes the connection of a response that was never read.
SocketClosed(i) ==
    /\ calls[i].st = "held"
    /\ agent' = Release(agent, i)
    /\ calls' = Dispatched([calls EXCEPT ![i].st = "done"], agent')
    /\ UNCHANGED << ctorVars, singleOpVars, sessionVars, nSent >>

\* The transport reports an error for the request of caller i: the promise is
\* rejected and the socket is gone.
CallerFailed(i, ev) ==
    /\ calls[i].st = "sent"
    /\ ~ShouldRetry(NewFrame, TransportErrorCode(ev))
    /\ agent' = Release(agent, i)
    /\ calls' = Dispatched([calls EXCEPT ![i].st = "done",
                                         ![i].result = TransportErrorCode(ev)],
                           agent')
    /\ UNCHANGED << ctorVars, singleOpVars, sessionVars, nSent >>

NextCallers ==
    \/ \E args \in CtorArgsWithAgent : Construct(args)
    \/ \E i \in Callers, cmd \in CallerCmds : CallerStart(i, cmd)
    \/ \E i \in Callers : CallerAnswered200(i)
    \/ \E i \in Callers, header \in Tokens : CallerAnswered400Token(i, header)
    \/ \E i \in Callers, status \in Statuses : CallerRejected(i, status)
    \/ \E i \in Callers : SocketClosed(i)
    \/ \E i \in Callers, ev \in TransportEvents : CallerFailed(i, ev)

SpecCallers == Init019 /\ [][NextCallers]_vars

(***************************************************************************)
(* Properties.                                                             *)
(***************************************************************************)

IsCmd400WithToken(r) == r.kind = "cmd" /\ r.status = 400 /\ r.token # Absent
IsCmd400NoToken(r) == r.kind = "cmd" /\ r.status = 400 /\ r.token = Absent

\* C1: after a failure that callAndRetry decides to retry, the next attempt of
\* the operation starts no earlier than the retry interval after that failure.
C1_NextAttemptAfterInterval ==
    \A i \in 1..Len(frames) :
        frames[i].resumedAt >= 0 => frames[i].resumedAt >= frames[i].retryDue

\* C2: once an attempt has succeeded, callAndRetry returns and does not invoke
\* the wrapped operation again, also when earlier attempts failed and were
\* retried.
C2_NoInvocationAfterSuccess ==
    \A i \in 1..Len(frames) : ~frames[i].invokedAfterSuccess

\* C3: an ordinary error is re-raised exactly when expirationPeriod is not
\* positive, or the code has no retry interval, or the interval is not positive,
\* or now + interval >= call start + expirationPeriod; otherwise the error is
\* swallowed and callAndRetry goes on to the next attempt.
C3_RethrowExactlyWhen ==
    /\ lastDecision.decision # "none" =>
          ( lastDecision.decision = "rethrow"
            <=> \/ lastDecision.period <= 0
                \/ ~lastDecision.known
                \/ lastDecision.interval <= 0
                \/ lastDecision.at + lastDecision.interval
                      >= lastDecision.start + lastDecision.period )
    /\ lastDecision.decision = "retry" =>
          /\ pc \in {"sleep", "call"}
          /\ Len(frames) > 0
          /\ final = NoOutcome

\* A retry was refused only because the next attempt would cross the deadline.
C3_Witness ==
    /\ lastDecision.decision = "rethrow"
    /\ lastDecision.period > 0
    /\ lastDecision.known
    /\ lastDecision.interval > 0

\* C4: a command answered 400 with a token header makes the client adopt the
\* token and send the same command again with it, without sleeping and without
\* an error for the caller; when that request is answered 200 the caller
\* receives its result.
C4_TokenRefreshIsTransparent ==
    /\ IsCmd400WithToken(lastResp) =>
          /\ fwcsrf = lastResp.token
          /\ pc # "sleep"
          /\ outcome.kind # "error"
          /\ final.kind # "error"
          /\ inflight # NoReq =>
                /\ inflight.kind = "cmd"
                /\ inflight.cmd = lastResp.cmd
                /\ inflight.fwcsrf = lastResp.token
    /\ (lastResp.kind = "cmd" /\ lastResp.status = 200 /\ lastResp.after400) =>
          \/ pc = "settle" /\ outcome = Resolved(ResolvedValue(lastResp.body))
          \/ pc = "idle" /\ final = Resolved(ResolvedValue(lastResp.body))

\* C5: after a probe answered 200 without a token header the probe is not sent
\* again: the next request is the command, without fwcsrf.
C5_ProbeNotRepeated ==
    probedNoToken => inflight.kind # "probe"

\* C6: a command answered 400 without a token header fails with
\* EFHEMCL_NOTOKEN and is not sent again.
C6_NoTokenIsFatal ==
    IsCmd400NoToken(lastResp) =>
        /\ inflight = NoReq
        /\ \/ outcome.code = "EFHEMCL_NOTOKEN"
           \/ final.code = "EFHEMCL_NOTOKEN"

\* C7: on the first operation of a fresh instance the first request is the
\* probe, no command is sent before a probe has delivered a token, the command
\* sent after the probe carries the token of the probe's header, and when that
\* command is answered 200 the operation resolves with its result (callFn hands
\* that result to its handler).
C7_ProbeThenCommand ==
    /\ (nSent = 1 /\ inflight # NoReq) => inflight.kind = "probe"
    /\ inflight.kind = "cmd" => (adopted # "" /\ inflight.fwcsrf # "")
    /\ (inflight.kind = "cmd" /\ lastResp.kind = "probe" /\ lastResp.token # Absent) =>
          inflight.fwcsrf = lastResp.token
    /\ (nOps = 1 /\ nSent = 2 /\ lastResp.kind = "cmd" /\ lastResp.status = 200) =>
          IF cfThen.ran
          THEN cfThen.ret = ResolvedValue(lastResp.body)
          ELSE \/ pc = "settle" /\ outcome = Resolved(ResolvedValue(lastResp.body))
               \/ pc = "idle" /\ final = Resolved(ResolvedValue(lastResp.body))

\* The first operation has resolved with the result of its command, sent as
\* the second request, after the probe.
C7_Witness ==
    /\ nOps = 1
    /\ nSent = 2
    /\ pc = "idle"
    /\ lastResp.kind = "cmd"
    /\ lastResp.status = 200
    /\ final.kind = "value"
    /\ adopted # ""

\* C8: once a token has been adopted, every command request carries fwcsrf
\* equal to the token adopted most recently.
C8_CommandsCarryAdoptedToken ==
    (adopted # "" /\ inflight.kind = "cmd") => inflight.fwcsrf = adopted

\* C9: constructing a client with a valid URL and no logger succeeds and leaves
\* the no-op logger installed.
C9_DummyLoggerInstalled ==
    (client # "none" /\ ctorArgs.urlValid /\ ~ctorArgs.logger) =>
        (client = "ready" /\ logger = "dummy")

\* C10: constructing a client with a malformed URL throws an Error with code
\* EFHEMCL_INVLURL, with or without a logger argument.
C10_InvalidUrlThrowsInvlUrl ==
    (client # "none" /\ ~ctorArgs.urlValid) =>
        (client = "threw" /\ ctorError = "EFHEMCL_INVLURL")

\* C11: when the configured request timeout elapses before a response and the
\* client aborts the request, the attempt fails with EFHEMCL_TIMEDOUT, never with
\* EFHEMCL_CONNRESET, and that is the error the operation fails with.
C11_TimeoutIsTimedOut ==
    lastResp.timeout =>
        /\ lastResp.kind = "failure"
        /\ lastResp.code = "EFHEMCL_TIMEDOUT"
        /\ pc = "settle" => outcome.code = "EFHEMCL_TIMEDOUT"
        /\ pc = "idle" => final.code = "EFHEMCL_TIMEDOUT"

\* An operation has failed with the error of the client's own abort.
C11_Witness ==
    /\ lastResp.timeout
    /\ pc = "idle"
    /\ final.kind = "error"
    /\ final.code = "EFHEMCL_TIMEDOUT"

\* C12: every failure of an operation reaches the caller as a rejection with a
\* code EFHEMCL_<KIND>, whatever the transport emits: no error is thrown out of
\* a listener while the promise stays pending, and no rejection has another code.
C12_FailuresAreTypedRejections ==
    /\ pc # "uncaught"
    /\ final.kind = "error" => SubSeq(final.code, 1, 8) = "EFHEMCL_"

\* C13: with requests always answered or failed and callAndRetry always run on,
\* every operation under way settles (or the bound on requests is reached).
C13_EveryCallSettles ==
    (pc \in {"call", "cmd", "settle"}) ~> (pc = "idle" \/ nSent = MaxRequests)

\* C14: a command answered 401 fails with EFHEMCL_AUTH, one answered 302 with
\* EFHEMCL_WEBN, one answered with another status than 200, 400, 401, 302 with an
\* error whose message carries that status; under the default retry intervals
\* the command is not sent again, whatever expirationPeriod is.
C14_StatusErrorsAreFatal ==
    ( /\ lastResp.kind = "cmd"
      /\ lastResp.status \notin {0, 200, 400}
      /\ retryIntervalFromCode = DefaultRetryIntervals ) =>
        /\ inflight = NoReq
        /\ pc \in {"settle", "idle"}
        /\ LET o == IF pc = "settle" THEN outcome ELSE final IN
            /\ o.kind = "error"
            /\ lastResp.status = 401 => o.code = "EFHEMCL_AUTH"
            /\ lastResp.status = 302 => o.code = "EFHEMCL_WEBN"
            /\ lastResp.status \notin {401, 302} => o.status = lastResp.status

\* An operation called with a positive expirationPeriod has failed with the
\* error of an unexpected status.
C14_Witness ==
    /\ pc = "idle"
    /\ lastResp.kind = "cmd"
    /\ lastResp.status = 500
    /\ final.status = 500
    /\ lastDecision.decision = "rethrow"
    /\ lastDecision.period > 0
    /\ retryIntervalFromCode = DefaultRetryIntervals

\* C15: the error an operation fails with is the error of its most recent
\* attempt: that of the latest answer or failure, or the one thrown by callFn's
\* handler.
C15_LastErrorIsDelivered ==
    (pc = "idle" /\ final.kind = "error") =>
        final.code = IF cfThen.ran /\ cfThen.out.kind = "error"
                     THEN cfThen.out.code
                     ELSE lastResp.code

\* callAndRetry has given up with an error after it had swallowed an error
\* with another code.
C15_Witness ==
    /\ pc = "idle"
    /\ final.kind = "error"
    /\ lastDecision.decision = "rethrow"
    /\ lastDecision.earlier # ""
    /\ lastDecision.earlier # final.code

\* What the remote function is to receive for an argument.
ExpectedReceived(arg) ==
    CASE arg.t = "undefined" -> PerlUndef
      [] arg.t = "number" -> PerlNumber(arg.n)
      [] arg.t = "string" -> PerlString(arg.s)
      [] arg.t = "boolean" -> IF arg.b THEN PerlNumber(1) ELSE PerlString("")

\* C16: the snippet hands the remote function undef at exactly the positions
\* whose argument is undefined and every other argument at its own position with
\* its own value.
C16_ArgumentsArriveInPlace ==
    cf.stage \in {"returned", "resolved"} =>
        cf.received = [i \in 1..Len(cf.args) |-> ExpectedReceived(cf.args[i])]

\* The element of the decoded array a returned value is to become.
ExpectedDecoded(x) ==
    IF LooksLikeNumber(x)
    THEN NumberValue(IF x.t = "number" THEN x.n ELSE DecimalValue(x.s))
    ELSE x

\* C17: a list of two or more returned numbers and texts, encoded by processRet
\* and decoded by callFn, is the original sequence with the numeric-looking
\* elements as numbers.
C17_WireArrayRoundTrip ==
    (cf.stage = "resolved" /\ Len(cf.rets) >= 2) =>
        /\ JsonParse(cf.ret).ok
        /\ JsonParse(cf.ret).v
              = Chars("array", [i \in 1..Len(cf.rets) |-> ExpectedDecoded(cf.rets[i])])

IsOddList(ret) ==
    /\ JsonParse(ret).ok
    /\ JsonParse(ret).v.t = "array"
    /\ Len(JsonParse(ret).v.s) >= 3
    /\ Len(JsonParse(ret).v.s) % 2 = 1

\* C19: callFn with functionReturnsHash = true whose decoded list has an odd
\* length of three or more is rejected with EFHEMCL_CF_ODDLIST and no further
\* request is sent, whatever expirationPeriod is, under the default intervals.
C19_OddListIsFatal ==
    ( /\ cfThen.ran
      /\ fnHash
      /\ IsOddList(cfThen.ret)
      /\ retryIntervalFromCode = DefaultRetryIntervals ) =>
        /\ cfThen.out = Rejected("EFHEMCL_CF_ODDLIST")
        /\ inflight = NoReq
        /\ pc \in {"settle", "idle"}
        /\ pc = "settle" => outcome = Rejected("EFHEMCL_CF_ODDLIST")
        /\ pc = "idle" => final = Rejected("EFHEMCL_CF_ODDLIST")

\* callFn called with a positive expirationPeriod has been rejected for an odd list.
C19_Witness ==
    /\ pc = "idle"
    /\ cfThen.ran
    /\ fnHash
    /\ IsOddList(cfThen.ret)
    /\ final.code = "EFHEMCL_CF_ODDLIST"
    /\ expirationPeriod > 0
    /\ retryIntervalFromCode = DefaultRetryIntervals

PairsOf(list) == 1..(Len(list) \div 2)

\* C21: for a decoded list of two or more elements, callFn with
\* functionReturnsHash = false resolves to the list unchanged; with
\* functionReturnsHash = true and an even length it resolves to a Map that has
\* one entry for every key list[2i-1], in the order in which the keys first occur,
\* the value being list[2i] of the last pair with that key.
C21_EvenListBecomesMap ==
    LET parsed == JsonParse(cf.ret) IN
    ( /\ cf.stage = "resolved"
      /\ parsed.ok
      /\ parsed.v.t = "array"
      /\ Len(parsed.v.s) >= 2 ) =>
        /\ ~cf.hash => cf.out = Resolved(parsed.v)
        /\ (cf.hash /\ Len(parsed.v.s) % 2 = 0) =>
              /\ cf.out.kind = "value"
              /\ cf.out.val.t = "map"
              /\ LET m == cf.out.val.s
                     list == parsed.v.s
                     First(k) == CHOOSE i \in PairsOf(list) :
                                    /\ list[2 * i - 1] = k
                                    /\ \A j \in PairsOf(list) :
                                          list[2 * j - 1] = k => i <= j
                     Last(k) == CHOOSE i \in PairsOf(list) :
                                    /\ list[2 * i - 1] = k
                                    /\ \A j \in PairsOf(list) :
                                          list[2 * j - 1] = k => j <= i
                 IN  /\ { m[i][1] : i \in 1..Len(m) }
                            = { list[2 * i - 1] : i \in PairsOf(list) }
                     /\ \A i \in 1..Len(m) :
                            /\ m[i][2] = list[2 * Last(m[i][1])]
                            /\ \A j \in 1..Len(m) :
                                  i < j => First(m[i][1]) < First(m[j][1])

\* callFn with functionReturnsHash = true has resolved to a Map in which the
\* value of a later pair has replaced that of an earlier pair with the same key.
C21_Witness ==
    /\ cf.stage = "resolved"
    /\ cf.hash
    /\ cf.rets = << NumberValue(7), NumberValue(7), NumberValue(7), Chars("string", <<"8">>) >>
    /\ cf.out = Resolved(Chars("map", << << NumberValue(7), NumberValue(8) >> >>))

\* C22: when the text returned for the snippet of callFn is 'undef', callFn
\* resolves to undefined and no further request is sent for the call.
C22_UndefResolvesToUndefined ==
    ( /\ opName = "callFn"
      /\ lastResp.kind = "cmd"
      /\ lastResp.status = 200
      /\ ResolvedValue(lastResp.body) = Chars("string", <<"u", "n", "d", "e", "f">>) ) =>
        /\ inflight = NoReq
        /\ pc \in {"settle", "idle"}
        /\ cfThen.ran => cfThen.out = Resolved(Undefined)
        /\ pc = "idle" => final = Resolved(Undefined)

\* What a body is to resolve to: the number it denotes after its trailing
\* newlines are removed if that text is numeric, the text otherwise; the empty
\* text is not numeric.
ExpectedResult(body) ==
    LET text == StripTrailingNewlines(body) IN
    IF Len(text) > 0 /\ \A i \in 1..Len(text) : text[i] \in Digits
    THEN NumberValue(DecimalValue(text))
    ELSE Chars("string", text)

\* C23: a command request answered 200 resolves to a number if and only if
\* the body without its trailing newlines is numeric, to that text otherwise.
C23_NumberIffNumeric ==
    ( /\ pc = "settle"
      /\ Len(frames) = wantDepth
      /\ lastResp.kind = "cmd"
      /\ lastResp.status = 200 ) =>
        outcome = Resolved(ExpectedResult(lastResp.body))

\* The request options the documentation gives as defaults: v014
\* { headers: { Connection: 'keep-alive' }, rejectUnauthorized: false }; v019
\* { rejectUnauthorized: false } in case of https, {} otherwise.
DocumentedDefault(v, https) ==
    IF v = "v014"
    THEN [NoOptions EXCEPT !.headers = "keep-alive", !.rejectUnauthorized = "false"]
    ELSE [NoOptions EXCEPT !.rejectUnauthorized = IF https THEN "false" ELSE "absent"]

\* C24: the request options of a constructed client have the user's value for
\* every key of options.getOptions and the documented default for every
\* documented key the user does not supply.
C24_UserOptionsOverrideDefaults ==
    client = "ready" =>
        \A k \in {"headers", "rejectUnauthorized", "timeout"} :
            reqOptions[k] = IF ctorArgs.getOptions[k] # "absent"
                            THEN ctorArgs.getOptions[k]
                            ELSE DocumentedDefault(version, ctorArgs.https)[k]

\* The default retry intervals as the documentation of options.retryIntervals
\* and the specification list them.
DocumentedIntervals ==
    ("EFHEMCL_RES" :> 500) @@ ("EFHEMCL_ABRT" :> 500) @@ ("EFHEMCL_TIMEDOUT" :> 1000)
        @@ ("EFHEMCL_CONNREFUSED" :> 10000) @@ ("EFHEMCL_NETUNREACH" :> 10000)

\* The pairs of options.retryIntervals that name the code c.
OverridesOf(c) ==
    { i \in 1..Len(ctorArgs.retryIntervals) : ctorArgs.retryIntervals[i][1] = c }

\* C25: a pair of options.retryIntervals sets the interval of its code, whether
\* or not the code has a default, and the other defaults are kept; after a
\* failure with an overridden code, with a positive expirationPeriod, the
\* operation is retried if the interval given is positive and the next attempt
\* would start before the deadline, and is not retried if the interval is 0.
C25_OverridesReplaceDefaults ==
    client = "ready" =>
        /\ DOMAIN retryIntervalFromCode
              = DOMAIN DocumentedIntervals
                    \cup { ctorArgs.retryIntervals[i][1] :
                               i \in 1..Len(ctorArgs.retryIntervals) }
        /\ \A c \in DOMAIN retryIntervalFromCode :
              IF OverridesOf(c) # { }
              THEN \E i \in OverridesOf(c) :
                      /\ \A j \in OverridesOf(c) : j <= i
                      /\ retryIntervalFromCode[c] = ctorArgs.retryIntervals[i][2]
              ELSE retryIntervalFromCode[c] = DocumentedIntervals[c]
        /\ ( /\ lastDecision.decision # "none"
             /\ lastDecision.period > 0
             /\ OverridesOf(lastDecision.code) # { } ) =>
              LET d == ctorArgs.retryIntervals[
                           CHOOSE i \in OverridesOf(lastDecision.code) :
                               \A j \in OverridesOf(lastDecision.code) : j <= i][2]
              IN  lastDecision.decision
                      = IF d > 0 /\ lastDecision.at + d
                                       < lastDecision.start + lastDecision.period
                        THEN "retry" ELSE "rethrow"

\* A failure with EFHEMCL_CONNRESET, which has no default interval and was given
\* one by options.retryIntervals, has been retried.
C25_Witness ==
    /\ lastDecision.decision = "retry"
    /\ lastDecision.code = "EFHEMCL_CONNRESET"
    /\ OverridesOf("EFHEMCL_CONNRESET") # { }
    /\ OverridesOf("EFHEMCL_RES") # { }
    /\ retryIntervalFromCode["EFHEMCL_RES"] = 0
    /\ retryIntervalFromCode["EFHEMCL_TIMEDOUT"] = 1000

C27_TimedOutIntervalIsDocumented ==
    ( /\ lastDecision.decision # "none"
      /\ lastDecision.code = "EFHEMCL_TIMEDOUT"
      /\ ctorArgs.retryIntervals = << >> ) =>
        lastDecision.interval = 10000

\* C29: once the instance holds a token no probe is sent: the first request of
\* an operation is its command request with the fwcsrf parameter, and when that
\* is answered 200 in a call that retried nothing, no further request follows.
C29_NoProbeOnceTokenHeld ==
    adopted # "" =>
        /\ inflight.kind # "probe"
        /\ (inflight # NoReq /\ lastResp = NoResp) =>
              /\ inflight.kind = "cmd"
              /\ inflight.cmd = opCmd
              /\ inflight.fwcsrf # ""
        /\ ( /\ lastResp.kind = "cmd"
             /\ lastResp.status = 200
             /\ \A i \in 1..Len(frames) : ~frames[i].retry ) =>
              /\ inflight = NoReq
              /\ pc \in {"settle", "idle"}

\* The second execCmd call has sent its command as its first request, the third
\* request of the instance: the probe and the command of the first call went
\* before.
C29_Witness ==
    /\ nOps = 2
    /\ opName = "execCmd"
    /\ nSent = 3
    /\ adopted # ""
    /\ lastResp = NoResp
    /\ inflight.kind = "cmd"
    /\ inflight.fwcsrf = adopted

C31_ResetIsTimedOutOnlyAfterOwnAbort ==
    /\ reqAborted =>
          /\ version = "v014"
          /\ pc \in {"probe", "cmd"}
          /\ inflight # NoReq
    /\ (lastResp.kind = "failure" /\ lastResp.event = "ECONNRESET") =>
          lastResp.code = IF lastResp.timeout
                          THEN ErrorCode(logger, "TIMEDOUT")
                          ELSE ErrorCode(logger, "CONNRESET")

\* An attempt ended by the client's abort was retried, and the connection of
\* the next attempt is reset by the peer: the error is CONNRESET.
C31_Witness ==
    /\ version = "v014"
    /\ ~reqAborted
    /\ pc = "settle"
    /\ Top.swallowed = ErrorCode(logger, "TIMEDOUT")
    /\ lastResp.event = "ECONNRESET"
    /\ ~lastResp.timeout
    /\ outcome = Rejected(ErrorCode(logger, "CONNRESET"))

\* C32: the deadline of an operation is computed when the public method is
\* called, from expirationPeriod as it is then; it stays what it is while the
\* operation runs, whatever is assigned to expirationPeriod meanwhile, and
\* every decision to retry or rethrow is taken against it.
C32_DeadlineComputedOnceAtCall ==
    /\ [][(pc = "idle" /\ pc' # "idle") =>
            /\ frames' = << NewFrame >>
            /\ frames'[1].period = expirationPeriod
            /\ frames'[1].expirationTime =
                  IF expirationPeriod > 0 THEN now + expirationPeriod ELSE 0]_vars
    /\ [][(frames # << >> /\ frames' # << >>) =>
            /\ frames'[1].expirationTime = frames[1].expirationTime
            /\ frames'[1].period = frames[1].period
            /\ frames'[1].start = frames[1].start]_vars
    /\ [][(pc = "settle" /\ pc' # "settle" /\ outcome.kind = "error") =>
            /\ lastDecision'.start = Top.start
            /\ lastDecision'.period = Top.period
            /\ lastDecision'.at = now]_vars
    /\ [](lastDecision # NoDecision =>
            (lastDecision.decision = "retry" <=>
                /\ lastDecision.period > 0
                /\ lastDecision.known
                /\ lastDecision.interval > 0
                /\ lastDecision.at + lastDecision.interval
                      < lastDecision.start + lastDecision.period))

\* An operation called with a positive period retried a failure after time
\* had passed although expirationPeriod is 0 by now.
C32_Witness ==
    /\ version = "v019"
    /\ pc = "call"
    /\ frames # << >>
    /\ frames[1].period = MaxPeriod
    /\ expirationPeriod = 0
    /\ lastDecision.decision = "retry"
    /\ lastDecision.at > lastDecision.start

\* C33: every token probe is sent with neither a cmd nor an fwcsrf parameter:
\* the shared URL gets its cmd parameter only once it holds a token, and a
\* probe is sent only while it holds none.
C33_ProbeCarriesNoCommand ==
    /\ inflight.kind = "probe" => (inflight.cmd = "" /\ inflight.fwcsrf = "")
    /\ urlCmd # "" => fwcsrf # ""

\* The second operation on the instance probes again, the first one having
\* ended without a token.
C33_Witness ==
    /\ version = "v014"
    /\ nOps = 2
    /\ nSent >= 2
    /\ pc = "probe"
    /\ inflight.kind = "probe"
    /\ urlCmd = ""

\* The codes the classification of C34 allows for an event; an 'error' whose
\* error object has no code is a request error or a response error.
ClassifiedCodes(event) ==
    CASE event = "ETIMEDOUT" -> {"EFHEMCL_TIMEDOUT"}
      [] event = "ECONNREFUSED" -> {"EFHEMCL_CONNREFUSED"}
      [] event = "ENETUNREACH" -> {"EFHEMCL_NETUNREACH"}
      [] event = "ECONNRESET" -> {"EFHEMCL_CONNRESET"}
      [] event = "res.error" -> {"EFHEMCL_RES"}
      [] event = "res.aborted" -> {"EFHEMCL_ABRT"}
      [] event = "no code" -> {"EFHEMCL_REQ", "EFHEMCL_RES"}
      [] OTHER -> {"EFHEMCL_REQ"}

\* C34: every transport event is turned into the code of its class, and the
\* attempt it ends is rejected with that code.
C34_TransportEventsClassified ==
    lastResp.kind = "failure" =>
        /\ lastResp.code \in ClassifiedCodes(lastResp.event)
        /\ pc \in {"settle", "idle"}
        /\ pc = "settle" => outcome = Rejected(lastResp.code)

\* ceil(p / d)
CeilDiv(p, d) == (p + d - 1) \div d

\* C35: a callAndRetry invocation with a period P > 0 whose attempts so far all
\* failed with one code of interval d > 0 has made at most ceil(P/d) attempts,
\* and each attempt after a failure began no earlier than d after that failure.
C35_AttemptsBoundedByPeriod ==
    \A i \in 1..Len(frames) :
        \A c \in DOMAIN retryIntervalFromCode :
            ( /\ frames[i].period > 0
              /\ retryIntervalFromCode[c] > 0
              /\ frames[i].codes = {c}
              /\ ~frames[i].hadSuccess ) =>
                /\ frames[i].attempts <= CeilDiv(frames[i].period, retryIntervalFromCode[c])
                /\ frames[i].resumedAt # -1 => frames[i].resumedAt >= frames[i].retryDue

\* C36: every request created for an operation carries the cmd text of that
\* operation, however the operations started without awaiting one another and
\* their answers interleave.
C36_RequestCarriesOwnCommand ==
    \A i \in Callers :
        calls[i].req # NoReq =>
            /\ calls[i].req.kind = "cmd"
            /\ calls[i].req.cmd = calls[i].cmd

\* Two operations with different commands are under way; the request of one
\* was created again after a token invalidation, so the URL was rewritten
\* while the request of the other was waiting or sent.
C36_Witness ==
    \E i, j \in Callers :
        /\ calls[i].cmd # calls[j].cmd
        /\ calls[i].req.after400
        /\ calls[i].st \in {"queued", "sent"}
        /\ calls[j].st \in {"queued", "sent"}
        /\ urlCmd = calls[i].cmd

====
